---- MODULE Spec2Model ----
(***************************************************************************)
(* A model of df12-www's documentation pipeline (package df12_pages):      *)
(* the markdown section parser, the section model builder and the          *)
(* `pages generate` command.                                               *)
(*                                                                         *)
(* Text is a sequence of one-character strings, so that the regular        *)
(* expressions of the source are computed character by character.          *)
(* Positions are 1-based; Slice(s, a, b) is Python's s[a-1:b-1].           *)
(***************************************************************************)
EXTENDS Integers, Sequences, FiniteSets, TLC

VARIABLES
    markdown_text,  \* parse_sections: the text handed to the parser
    sections,       \* parse_sections: the list it returned
    pstate,         \* "idle" | "input" | "parsed"
    section,        \* _build_section_model: the parsed Section
    layouts,        \* PageConfig.layouts: slug -> SectionLayout
    model,          \* _build_section_model: the SectionModel it returned
    mstate,         \* "idle" | "input" | "built" | "raised"
    site_config,    \* generate: the loaded SiteConfig
    args,           \* generate: its options page, source_url and output_dir
    pc,             \* generate: "idle" | "pages" | "index" | "done" | "failed"
    cursor,         \* generate: the index in target_pages of the next page
    files,          \* the disk: path -> content of the files that exist
    dirs,           \* the disk: the directories that exist
    written,        \* generate: what the last run() returned
    raised,         \* generate: the exception that ended it, "" for none
    runs,           \* how many times the command has been invoked
    link_page,      \* link rewriter: the page whose document is rendered
    link_target,    \* link rewriter: the href of an anchor before the rewrite
    href,           \* link rewriter: the href of the anchor
    lstate,         \* "idle" | "input" | "done"
    render_doc,     \* renderer: the blocks of the markdown handed to markdown()
    render_html,    \* renderer: the highlighted blocks of the HTML it returned
    rstate,         \* "idle" | "input" | "done"
    nav_doc,        \* navigation: the markdown of the page
    nav_models,     \* navigation: the section models run() built
    nav_groups,     \* navigation: what _build_nav_groups returned
    nstate,         \* "idle" | "input" | "done" | "raised"
    bump_doc,       \* bump: the YAML document, as loaded and as written back
    bump_before,    \* bump: the document the last call loaded
    bump_calls,     \* bump: the fetch_latest calls of the last call, in order
    bump_results,   \* bump: the mapping the last call returned
    bstate,         \* "idle" | "input" | "done" | "raised"
    bumps,          \* how many times the bump has run
    deploy_call,    \* deploy: the function called and its flags
    dpc,            \* deploy: "idle" | "try" | "finally" | "returned" | "raised"
    tmp_files,      \* deploy: the temporary files that exist
    tmp_made,       \* deploy: how many temporary files mkstemp has made
    commands,       \* deploy: the steps the call has run, in order, with their outcome
    deploys,        \* how many times a stack function has been called
    config_file,    \* credentials: config.toml, its [auth] and [backend] tables as text
    cred_args,      \* credentials: the explicit arguments of the saving call
    environ,        \* credentials: the environment of the last call
    saved_creds,    \* credentials: what the call with save=True returned
    loaded_creds,   \* credentials: what the later call with save=False returned
    tofu_env,       \* credentials: the environment build_env returned, variable -> value
    cstate,         \* "idle" | "input" | "saved" | "env" | "loaded" | "raised"
    upd_page,       \* updated: the page's repo and latest_release_published_at
    upd_lookup,     \* updated: what the commit lookup of the constructor meets
    upd_response,   \* updated: the markdown response, its status, Last-Modified and sections
    clock,          \* updated: the reading of the system clock
    doc_updated_at, \* updated: the generator's doc_updated_at
    context,        \* updated: generated_at and doc_updated_at of the rendered pages
    ustate,         \* "idle" | "input" | "constructed" | "rendered" | "raised"
    res_cache,      \* resolver: _cache, manifest URL -> description
    res_completed,  \* resolver: per URL, what the call that completed a successful request returned
    res_last,       \* resolver: the last resolve call, its page, whether it requested, what it returned
    res_calls       \* how many times resolve has been called

parser_vars == <<markdown_text, sections, pstate>>

builder_vars == <<section, layouts, model, mstate>>

run_vars == <<site_config, args, pc, cursor, files, dirs, written, raised, runs>>

link_vars == <<link_page, link_target, href, lstate>>

render_vars == <<render_doc, render_html, rstate>>

nav_vars == <<nav_doc, nav_models, nav_groups, nstate>>

bump_vars == <<bump_doc, bump_before, bump_calls, bump_results, bstate, bumps>>

deploy_vars == <<deploy_call, dpc, tmp_files, tmp_made, commands, deploys>>

creds_vars == <<config_file, cred_args, environ, saved_creds, loaded_creds, tofu_env,
               cstate>>

upd_vars == <<upd_page, upd_lookup, upd_response, clock, doc_updated_at, context, ustate>>

res_vars == <<res_cache, res_completed, res_last, res_calls>>

vars == <<markdown_text, sections, pstate, section, layouts, model, mstate,
          site_config, args, pc, cursor, files, dirs, written, raised, runs,
          link_page, link_target, href, lstate,
          render_doc, render_html, rstate,
          nav_doc, nav_models, nav_groups, nstate,
          bump_doc, bump_before, bump_calls, bump_results, bstate, bumps,
          deploy_call, dpc, tmp_files, tmp_made, commands, deploys,
          config_file, cred_args, environ, saved_creds, loaded_creds, tofu_env, cstate,
          upd_page, upd_lookup, upd_response, clock, doc_updated_at, context, ustate,
          res_cache, res_completed, res_last, res_calls>>

----------------------------------------------------------------------------
(* Characters and strings *)

LowerLetters == <<"a", "b", "c", "d", "e", "f", "g", "h", "i", "j", "k", "l", "m", "n", "o", "p", "q", "r", "s", "t", "u", "v", "w", "x", "y", "z">>

UpperLetters == <<"A", "B", "C", "D", "E", "F", "G", "H", "I", "J", "K", "L", "M", "N", "O", "P", "Q", "R", "S", "T", "U", "V", "W", "X", "Y", "Z">>

Digits == <<"0", "1", "2", "3", "4", "5", "6", "7", "8", "9">>

Range(f) == {f[i] : i \in DOMAIN f}

IsSpace(c) == c \in {" ", "\n", "\t"}

IsDigit(c) == c \in Range(Digits)

IsLowerAlnum(c) == c \in Range(LowerLetters) \cup Range(Digits)

LowerChar(c) ==
    IF c \in Range(UpperLetters)
    THEN LowerLetters[CHOOSE i \in DOMAIN UpperLetters : UpperLetters[i] = c]
    ELSE c

Lower(s) == [i \in DOMAIN s |-> LowerChar(s[i])]

Slice(s, a, b) == SubSeq(s, a, b - 1)

HasPrefix(s, prefix) ==
    Len(s) >= Len(prefix) /\ SubSeq(s, 1, Len(prefix)) = prefix

RECURSIVE FirstNonSpace(_, _)
FirstNonSpace(s, i) ==
    IF i > Len(s) \/ ~IsSpace(s[i]) THEN i ELSE FirstNonSpace(s, i + 1)

RECURSIVE LastNonSpace(_, _)
LastNonSpace(s, i) ==
    IF i < 1 \/ ~IsSpace(s[i]) THEN i ELSE LastNonSpace(s, i - 1)

RECURSIVE FirstNonDigit(_, _)
FirstNonDigit(s, i) ==
    IF i > Len(s) \/ ~IsDigit(s[i]) THEN i ELSE FirstNonDigit(s, i + 1)

RECURSIVE LineEnd(_, _)
LineEnd(s, i) ==
    IF i > Len(s) \/ s[i] = "\n" THEN i ELSE LineEnd(s, i + 1)

\* str.strip()
Strip(s) ==
    LET a == FirstNonSpace(s, 1)
        b == LastNonSpace(s, Len(s))
    IN  IF a > b THEN <<>> ELSE SubSeq(s, a, b)

RECURSIVE StripChar(_, _)
\* str.strip(c) for a single character c
StripChar(s, c) ==
    IF s = <<>> THEN s
    ELSE IF Head(s) = c THEN StripChar(Tail(s), c)
    ELSE IF s[Len(s)] = c THEN StripChar(SubSeq(s, 1, Len(s) - 1), c)
    ELSE s

RECURSIVE Str(_)
\* str(n) for a natural number
Str(n) ==
    IF n < 10 THEN <<Digits[n + 1]>>
    ELSE Str(n \div 10) \o <<Digits[(n % 10) + 1]>>

RECURSIVE JoinLines(_)
\* "\n".join(lines)
JoinLines(lines) ==
    IF lines = <<>> THEN <<>>
    ELSE IF Len(lines) = 1 THEN lines[1]
    ELSE lines[1] \o <<"\n">> \o JoinLines(Tail(lines))

\* re.sub(r"^\d+\.?\s*", "", s)
StripNumberPrefix(s) ==
    LET d == FirstNonDigit(s, 1)
        e == IF d <= Len(s) /\ s[d] = "." THEN d + 1 ELSE d
    IN  IF d = 1 THEN s ELSE Slice(s, FirstNonSpace(s, e), Len(s) + 1)

RECURSIVE HyphenateFrom(_, _, _)
HyphenateFrom(s, i, inRun) ==
    IF i > Len(s) THEN <<>>
    ELSE IF IsLowerAlnum(s[i]) THEN <<s[i]>> \o HyphenateFrom(s, i + 1, FALSE)
    ELSE IF inRun THEN HyphenateFrom(s, i + 1, TRUE)
    ELSE <<"-">> \o HyphenateFrom(s, i + 1, TRUE)

\* re.sub(r"[^a-z0-9]+", "-", s)
Hyphenate(s) == HyphenateFrom(s, 1, FALSE)

----------------------------------------------------------------------------
(* df12_pages/markdown_parser.py *)

clean_heading(text) == Strip(SelectSeq(text, LAMBDA c : c # "\\"))

slugify(title) ==
    LET no_number == StripNumberPrefix(Lower(title))
        slug == StripChar(Hyphenate(no_number), "-")
    IN  IF slug = <<>> THEN <<"s", "e", "c", "t", "i", "o", "n">> ELSE slug

RECURSIVE UniqueFrom(_, _, _)
UniqueFrom(base, used, suffix) ==
    LET candidate == base \o <<"-">> \o Str(suffix)
    IN  IF candidate \in used THEN UniqueFrom(base, used, suffix + 1) ELSE candidate

\* Mutant of unique_slug: one suffix, never checked against the used slugs
unique_slug_once(base, used) ==
    IF base \in used THEN base \o <<"-", "2">> ELSE base

unique_slug(base, used) ==
    IF base \in used THEN UniqueFrom(base, used, 2) ELSE base

\* A match of ^#{n}\s+(.*) (re.MULTILINE) starts at p
HeadingAt(s, n, p) ==
    /\ p = 1 \/ s[p - 1] = "\n"
    /\ p + n <= Len(s)
    /\ \A k \in 0..(n - 1) : s[p + k] = "#"
    /\ IsSpace(s[p + n])

RECURSIVE HeadingMatches(_, _, _)
\* list(PATTERN.finditer(s)) for ^#{n}\s+(.*): \s+ also runs over line
\* breaks, (.*) stops at the next line break
HeadingMatches(s, n, p) ==
    IF p > Len(s) THEN <<>>
    ELSE IF HeadingAt(s, n, p)
    THEN LET q == FirstNonSpace(s, p + n)
             e == LineEnd(s, q)
         IN  <<[start |-> p, end |-> e, group |-> Slice(s, q, e)]>>
                 \o HeadingMatches(s, n, e)
    ELSE HeadingMatches(s, n, p + 1)

SECTION_PATTERN(s) == HeadingMatches(s, 2, 1)

SUBSECTION_PATTERN(s) == HeadingMatches(s, 3, 1)

\* Where \s*$ ends after position t (0: it cannot match)
TrailEnd(s, t) ==
    LET m == FirstNonSpace(s, t)
        ends == {j \in t..(m - 1) : s[j] = "\n"}
    IN  IF m > Len(s) THEN Len(s) + 1
        ELSE IF ends = {} THEN 0
        ELSE CHOOSE j \in ends : \A k \in ends : k <= j

RECURSIVE BoldClose(_, _, _)
\* The lazy (.+?) of BOLD_HEADING_PATTERN opened at q, closing ** tried at c
BoldClose(s, q, c) ==
    IF c + 1 > Len(s) \/ s[c - 1] = "\n" THEN [end |-> 0, group |-> <<>>]
    ELSE IF s[c] = "*" /\ s[c + 1] = "*" /\ TrailEnd(s, c + 2) # 0
    THEN [end |-> TrailEnd(s, c + 2), group |-> Slice(s, q + 2, c)]
    ELSE BoldClose(s, q, c + 1)

\* BOLD_HEADING_PATTERN = ^\s*\*\*(.+?)\*\*\s*$ (re.MULTILINE) tried at p
BOLD_HEADING_PATTERN(s, p) ==
    LET q == FirstNonSpace(s, p)
    IN  IF /\ p = 1 \/ s[p - 1] = "\n"
           /\ q + 1 <= Len(s)
           /\ s[q] = "*"
           /\ s[q + 1] = "*"
        THEN BoldClose(s, q, q + 3)
        ELSE [end |-> 0, group |-> <<>>]

RECURSIVE PromoteFrom(_, _)
PromoteFrom(s, p) ==
    IF p > Len(s) THEN <<>>
    ELSE LET m == BOLD_HEADING_PATTERN(s, p)
             title == Strip(m.group)
         IN  IF m.end = 0 THEN <<s[p]>> \o PromoteFrom(s, p + 1)
             ELSE (IF title # <<>>
                   THEN <<"#", "#", "#", " ">> \o title
                   ELSE Slice(s, p, m.end))
                  \o PromoteFrom(s, m.end)

promote_bold_headings(body) == PromoteFrom(body, 1)

split_subsections(body0) ==
    LET body == promote_bold_headings(body0)
        matches == SUBSECTION_PATTERN(body)
        n == Len(matches)
    IN  IF n = 0 THEN [intro |-> <<>>, subsections |-> <<>>]
        ELSE [intro |-> Strip(Slice(body, 1, matches[1].start)),
              subsections |->
                [idx \in 1..n |->
                    [title |-> clean_heading(matches[idx].group),
                     markdown |->
                        Strip(Slice(body, matches[idx].end,
                                    IF idx + 1 <= n THEN matches[idx + 1].start
                                    ELSE Len(body) + 1))]]]

RECURSIVE ParseFrom(_, _, _, _)
ParseFrom(text, entries, idx, used_slugs) ==
    IF idx > Len(entries) THEN <<>>
    ELSE LET match == entries[idx]
             end == IF idx + 1 <= Len(entries) THEN entries[idx + 1].start
                    ELSE Len(text) + 1
             body == Strip(Slice(text, match.end, end))
             heading == clean_heading(match.group)
             short_title == Strip(StripNumberPrefix(heading))
             slug == unique_slug(slugify(heading), used_slugs)
             split == split_subsections(body)
         IN  <<[title |-> heading,
                short_title |-> IF short_title # <<>> THEN short_title ELSE heading,
                slug |-> slug,
                order |-> idx,
                markdown |-> body,
                intro_markdown |-> split.intro,
                subsections |-> split.subsections]>>
                 \o ParseFrom(text, entries, idx + 1, used_slugs \cup {slug})

parse_sections(text) == ParseFrom(text, SECTION_PATTERN(text), 1, {})

----------------------------------------------------------------------------
(* df12_pages/generator/renderer.py *)

\* The backtick character (SANY reads no backtick inside a string)
BackTick == "<bt>"

FenceChars == {BackTick, "~"}

LangChars == Range(LowerLetters) \cup Range(UpperLetters) \cup Range(Digits)
                \cup {"_", "+", "#", ".", "-"}

RECURSIVE RunEnd(_, _, _)
\* The first position from i on whose character is not in S
RunEnd(s, i, S) ==
    IF i > Len(s) \/ s[i] \notin S THEN i ELSE RunEnd(s, i + 1, S)

AtLineStart(s, p) == p = 1 \/ s[p - 1] = "\n"

RECURSIVE UnindentFrom(_, _)
\* FENCED_INDENT_PATTERN.sub(r"\1", text): ^[ ]{1,3}([`~]{3,})
UnindentFrom(s, p) ==
    IF p > Len(s) THEN <<>>
    ELSE LET a == RunEnd(s, p, {" "})
             f == RunEnd(s, a, FenceChars)
         IN  IF AtLineStart(s, p) /\ a - p >= 1 /\ a - p <= 3 /\ f - a >= 3
             THEN Slice(s, a, f) \o UnindentFrom(s, f)
             ELSE <<s[p]>> \o UnindentFrom(s, p + 1)

RECURSIVE StripLabelsFrom(_, _)
\* FENCE_LABEL_PATTERN.sub(_strip_labels, text):
\* ^([`~]{3,})([A-Za-z0-9_+#.-]+)?(,[^\r\n]+)$
StripLabelsFrom(s, p) ==
    IF p > Len(s) THEN <<>>
    ELSE LET f == RunEnd(s, p, FenceChars)
             l == RunEnd(s, f, LangChars)
             e == LineEnd(s, l)
         IN  IF AtLineStart(s, p) /\ f - p >= 3 /\ l <= Len(s) /\ s[l] = ","
                /\ e - l >= 2
             THEN Slice(s, p, l) \o StripLabelsFrom(s, e)
             ELSE <<s[p]>> \o StripLabelsFrom(s, p + 1)

normalize_fenced_blocks(text) == StripLabelsFrom(UnindentFrom(text, 1), 1)

\* HtmlContentRenderer.markdown.  The HTML that python-markdown produces is
\* kept abstract: the normalized source between two tags.  Empty or
\* whitespace-only input gives the empty string.
markdown(text) ==
    LET normalized == normalize_fenced_blocks(text)
    IN  IF Strip(normalized) = <<>> THEN <<>>
        ELSE <<"<html>">> \o normalized \o <<"</html>">>

\* HtmlContentRenderer.code_block: the highlighted block, never empty, with
\* its data-language attribute
code_block(code, language) ==
    LET lang == IF language = <<>> THEN <<"t", "e", "x", "t">> ELSE language
    IN  <<"<div class=\"codehilite\" data-language=\"">> \o lang \o <<"\">">>
            \o code \o <<"</div>">>

RECURSIVE FindFence(_, _)
\* The first position from c on where ``` starts (0: none)
FindFence(s, c) ==
    IF c + 2 > Len(s) THEN 0
    ELSE IF s[c] = BackTick /\ s[c + 1] = BackTick /\ s[c + 2] = BackTick THEN c
    ELSE FindFence(s, c + 1)

RECURSIVE CodeBlocksFrom(_, _)
CodeBlocksFrom(s, p) ==
    LET o == FindFence(s, p)
        l == RunEnd(s, o + 3, LangChars)
        nl == LineEnd(s, l)
        c == IF nl > Len(s) THEN 0 ELSE FindFence(s, nl + 1)
    IN  IF o = 0 THEN <<>>
        ELSE IF c = 0 THEN CodeBlocksFrom(s, o + 1)
        ELSE <<[start |-> o, end |-> c + 3,
                lang |-> Slice(s, o + 3, l),
                code |-> Slice(s, nl + 1, c)]>> \o CodeBlocksFrom(s, c + 3)

\* list(CODE_BLOCK_PATTERN.finditer(s)) for
\* ```([A-Za-z0-9_+#.-]+)?[^\n]*\n(.*?)``` (re.DOTALL); lang is group(1),
\* empty when the group did not take part
CODE_BLOCK_PATTERN(s) == CodeBlocksFrom(s, 1)

\* python-markdown, fenced_code: at the line start p a fence opens (a run
\* of three or more of one fence character, blanks, a language, blanks,
\* the line end); the position after the run, 0 when none opens
OpensFence(s, p) ==
    IF p > Len(s) \/ s[p] \notin FenceChars THEN 0
    ELSE LET f == RunEnd(s, p, {s[p]})
             b == RunEnd(s, RunEnd(s, RunEnd(s, f, {" "}), LangChars), {" "})
         IN  IF f - p >= 3 /\ b <= Len(s) /\ s[b] = "\n" THEN f ELSE 0

RECURSIVE ClosingFence(_, _, _)
\* python-markdown, fenced_code: the first line start from q on that holds
\* the fence alone (blanks may follow it), 0 when there is none
ClosingFence(s, q, fence) ==
    IF q > Len(s) THEN 0
    ELSE LET e == LineEnd(s, q)
         IN  IF HasPrefix(Slice(s, q, e), fence)
                /\ RunEnd(s, q + Len(fence), {" "}) = e
             THEN q
             ELSE ClosingFence(s, e + 1, fence)

RECURSIVE IndentedEnd(_, _)
\* python-markdown, code blocks: the line start after the indented lines
\* that begin at p
IndentedEnd(s, p) ==
    IF p > Len(s) \/ ~HasPrefix(Slice(s, p, LineEnd(s, p)), <<" ", " ", " ", " ">>)
    THEN p
    ELSE IndentedEnd(s, LineEnd(s, p) + 1)

RECURSIVE ConvertFrom(_, _, _)
\* md.convert with fenced_code and codehilite: the highlighted blocks of the
\* HTML in document order.  A fenced block (backticks or tildes, closed by
\* the same fence) and an indented code block after a blank line each come
\* out as one <div class="codehilite">; lang is what the fence declared,
\* data_language the attribute of the div (<<>>: none).
ConvertFrom(s, p, after_blank) ==
    IF p > Len(s) THEN <<>>
    ELSE LET e == LineEnd(s, p)
             f == OpensFence(s, p)
             c == IF f = 0 THEN 0 ELSE ClosingFence(s, e + 1, Slice(s, p, f))
         IN  IF c # 0
             THEN <<[fenced |-> TRUE,
                     lang |-> Slice(s, RunEnd(s, f, {" "}),
                                    RunEnd(s, RunEnd(s, f, {" "}), LangChars)),
                     data_language |-> <<>>]>>
                      \o ConvertFrom(s, LineEnd(s, c) + 1, FALSE)
             ELSE IF after_blank /\ IndentedEnd(s, p) > p /\ Strip(Slice(s, p, e)) # <<>>
             THEN <<[fenced |-> FALSE, lang |-> <<>>, data_language |-> <<>>]>>
                      \o ConvertFrom(s, IndentedEnd(s, p), FALSE)
             ELSE ConvertFrom(s, e + 1, Strip(Slice(s, p, e)) = <<>>)

\* _annotate_codehilite: the first len(languages) opening tags take the
\* languages of the CODE_BLOCK_PATTERN matches in order (html.escape leaves
\* the characters a language can have as they are)
annotate_codehilite(html, source_markdown) ==
    LET matches == CODE_BLOCK_PATTERN(source_markdown)
        languages == [i \in DOMAIN matches |->
                         IF matches[i].lang = <<>> THEN <<"t", "e", "x", "t">>
                         ELSE matches[i].lang]
    IN  [i \in DOMAIN html |->
            IF i <= Len(languages)
            THEN [html[i] EXCEPT !.data_language = <<languages[i]>>]
            ELSE html[i]]

\* HtmlContentRenderer.markdown, seen through the highlighted blocks of the
\* HTML it returns
markdown_codehilite(text) ==
    LET normalized == normalize_fenced_blocks(text)
    IN  IF Strip(normalized) = <<>> THEN <<>>
        ELSE annotate_codehilite(ConvertFrom(normalized, 1, TRUE), normalized)


----------------------------------------------------------------------------
(* df12_pages/generator/page_generator.py: the section model builder *)

\* config/models.py SectionLayout; emphasized_code_block is <<>> for None
\* and <<n>> for the integer n
SectionLayout(device, step_order, emphasized_code_block) ==
    [device |-> device, step_order |-> step_order,
     emphasized_code_block |-> emphasized_code_block]

resolve_layout(page_layouts, slug) ==
    IF slug \in DOMAIN page_layouts THEN page_layouts[slug]
    ELSE SectionLayout("default", <<>>, <<>>)

generator_slugify(value) == StripChar(Hyphenate(Lower(value)), "-")

\* Mutant of unique_anchor: one suffix, never checked against the used anchors
unique_anchor_once(base, used) ==
    IF base \in used THEN base \o <<"-", "2">> ELSE base

unique_anchor(base, used) ==
    IF base \in used THEN UniqueFrom(base, used, 2) ELSE base

section_anchor(section_slug, title, index, used) ==
    LET base_title == generator_slugify(title)
        base == IF base_title # <<>>
                THEN section_slug \o <<"-">> \o base_title
                ELSE section_slug \o <<"-", "p", "a", "r", "t", "-">> \o Str(index)
    IN  unique_anchor(base, used)

RECURSIVE BlocksFrom(_, _, _)
BlocksFrom(sec, idx, used) ==
    IF idx > Len(sec.subsections) THEN <<>>
    ELSE LET sub == sec.subsections[idx]
             anchor == section_anchor(sec.slug, sub.title, idx, used)
         IN  <<[title |-> sub.title, anchor |-> anchor,
                html |-> markdown(sub.markdown)]>>
                 \o BlocksFrom(sec, idx + 1, used \cup {anchor})

build_subsection_blocks(sec) == BlocksFrom(sec, 1, {})

\* lower_map.get(key): the dict comprehension keeps, for each lowered
\* title, the last subsection that has it (<<>>: no entry)
LowerMapGet(subsections, key) ==
    LET hits == {i \in DOMAIN subsections : Lower(subsections[i].title) = key}
    IN  IF hits = {} THEN <<>>
        ELSE <<subsections[CHOOSE i \in hits : \A j \in hits : j <= i]>>

RECURSIVE OrderDesired(_, _, _, _)
\* for desired in layout.step_order: ... (Subsection equality is by value)
OrderDesired(subsections, step_order, k, ordered) ==
    IF k > Len(step_order) THEN ordered
    ELSE LET match == LowerMapGet(subsections, Lower(step_order[k]))
         IN  OrderDesired(subsections, step_order, k + 1,
                IF match # <<>> /\ match[1] \notin Range(ordered)
                THEN Append(ordered, match[1]) ELSE ordered)

RECURSIVE AppendRest(_, _, _)
\* for sub in subsections: if sub not in ordered: ordered.append(sub)
AppendRest(subsections, k, ordered) ==
    IF k > Len(subsections) THEN ordered
    ELSE AppendRest(subsections, k + 1,
            IF subsections[k] \notin Range(ordered)
            THEN Append(ordered, subsections[k]) ELSE ordered)

prepare_numbered_steps(sec, layout) ==
    LET subsections ==
            IF layout.step_order # <<>> /\ sec.subsections # <<>>
            THEN AppendRest(sec.subsections, 1,
                    OrderDesired(sec.subsections, layout.step_order, 1, <<>>))
            ELSE sec.subsections
    IN  [idx \in 1..Len(subsections) |->
            [title |-> subsections[idx].title,
             number |-> idx,
             html |-> markdown(subsections[idx].markdown),
             anchor |-> sec.slug \o <<"-", "s", "t", "e", "p", "-">> \o Str(idx)]]

\* matches[index] for a Python list of n items (1-based position; 0 when
\* Python raises IndexError)
ListIndex(n, index) ==
    IF index >= 0 THEN (IF index < n THEN index + 1 ELSE 0)
    ELSE IF index >= -n THEN n + index + 1
    ELSE 0

prepare_split_panel(sec, layout) ==
    LET matches == CODE_BLOCK_PATTERN(sec.markdown)
        n == Len(matches)
        requested == IF layout.emphasized_code_block = <<>> THEN 0
                     ELSE layout.emphasized_code_block[1]
        index == IF requested >= n THEN 0 ELSE requested
        at == ListIndex(n, index)
        match == matches[at]
        code == StripChar(match.code, "\n")
        before == Slice(sec.markdown, 1, match.start)
        after == Slice(sec.markdown, match.end, Len(sec.markdown) + 1)
        primary_md == Strip(before \o <<"\n", "\n">> \o after)
    IN  IF n = 0
        THEN [raised |-> FALSE, primary_html |-> markdown(sec.markdown),
              secondary_html |-> <<>>]
        ELSE IF at = 0
        THEN [raised |-> TRUE, primary_html |-> <<>>, secondary_html |-> <<>>]
        ELSE [raised |-> FALSE, primary_html |-> markdown(primary_md),
              secondary_html |-> code_block(code, match.lang)]

NoSplitPanel == [raised |-> FALSE, primary_html |-> <<>>, secondary_html |-> <<>>]

\* Mutant of toc_items: the steps never replace the subsection entries
toc_items_never_overwritten(layout, steps, subsections) ==
    [i \in DOMAIN subsections |->
        [label |-> subsections[i].title, anchor |-> subsections[i].anchor]]

\* _build_section_model, lines 386-400: the table of contents
toc_items(layout, steps, subsections) ==
    IF layout.device = "numbered_steps" /\ steps # <<>>
    THEN [i \in DOMAIN steps |->
            [label |-> steps[i].title, anchor |-> steps[i].anchor]]
    ELSE [i \in DOMAIN subsections |->
            [label |-> subsections[i].title, anchor |-> subsections[i].anchor]]

\* Mutant of resolved_layout: a split panel without a code block is kept
resolved_layout_keeps_split_panel(layout, steps, panel) ==
    IF layout.device = "numbered_steps" /\ steps = <<>> THEN "default"
    ELSE layout.device

\* _build_section_model, lines 390-404: the device the section ends up with
resolved_layout(layout, steps, panel) ==
    IF layout.device = "numbered_steps" /\ steps = <<>> THEN "default"
    ELSE IF layout.device = "split_panel" /\ panel.secondary_html = <<>>
    THEN "default"
    ELSE layout.device

\* _build_section_model; raised is TRUE when an exception leaves it
build_section_model(sec, layout) ==
    LET subsections == build_subsection_blocks(sec)
        steps == IF layout.device = "numbered_steps"
                 THEN prepare_numbered_steps(sec, layout) ELSE <<>>
        panel == IF layout.device = "split_panel"
                 THEN prepare_split_panel(sec, layout) ELSE NoSplitPanel
    IN  [raised |-> panel.raised,
         model |->
            [title |-> sec.title,
             short_title |-> sec.short_title,
             slug |-> sec.slug,
             order |-> sec.order,
             layout |-> resolved_layout(layout, steps, panel),
             intro_html |-> markdown(sec.intro_markdown),
             default_html |-> markdown(sec.markdown),
             numbered_steps |-> steps,
             split_panel |-> [primary_html |-> panel.primary_html,
                              secondary_html |-> panel.secondary_html],
             subsections |-> subsections,
             toc_items |-> toc_items(layout, steps, subsections)]]

----------------------------------------------------------------------------
(* The file system, as the generator and the docs index builder use it *)

\* A path is <<directory, file name>>; the disk maps the paths of the files
\* that exist to their contents
NoFiles == <<>>

\* Path.write_text
write_text(disk, path, content) ==
    [p \in DOMAIN disk \cup {path} |-> IF p = path THEN content ELSE disk[p]]

\* Path.exists, for a file
exists(disk, path) == path \in DOMAIN disk

HtmlSuffix == <<".", "h", "t", "m", "l">>

\* PAGE_META_TEMPLATE.format(key=key)
PAGE_META_TEMPLATE(key) ==
    <<".", "d", "f", "1", "2", "-", "p", "a", "g", "e", "s", "-">> \o key
        \o <<"-", "m", "e", "t", "a", ".", "j", "s", "o", "n">>

MetaOpen == <<"{", "\"", "f", "i", "r", "s", "t", "_", "f", "i", "l", "e", "\"", ":", " ", "\"">>

MetaClose == <<"\"", "}">>

\* json.dumps({"first_file": first_filename}); file names hold no character
\* that JSON escapes
json_dumps(first_filename) == MetaOpen \o first_filename \o MetaClose

\* json.loads(text).get("first_file"): <<>> when the text is not such an object
json_loads(text) ==
    LET n == Len(text)
    IN  IF /\ n >= Len(MetaOpen) + Len(MetaClose)
           /\ SubSeq(text, 1, Len(MetaOpen)) = MetaOpen
           /\ SubSeq(text, n - Len(MetaClose) + 1, n) = MetaClose
        THEN SubSeq(text, Len(MetaOpen) + 1, n - Len(MetaClose))
        ELSE <<>>

\* The characters of file names, in code point order
AsciiOrder == <<"-", ".">> \o Digits \o <<"_">> \o LowerLetters

CharRank(c) == CHOOSE i \in DOMAIN AsciiOrder : AsciiOrder[i] = c

RECURSIVE LexLess(_, _)
\* Python's a < b on strings
LexLess(a, b) ==
    IF b = <<>> THEN FALSE
    ELSE IF a = <<>> THEN TRUE
    ELSE IF a[1] = b[1] THEN LexLess(Tail(a), Tail(b))
    ELSE CharRank(a[1]) < CharRank(b[1])

\* Python's sub in s
Contains(s, sub) ==
    \E i \in 1..(Len(s) - Len(sub) + 1) : SubSeq(s, i, i + Len(sub) - 1) = sub

EndsWith(s, suffix) ==
    /\ Len(s) >= Len(suffix)
    /\ SubSeq(s, Len(s) - Len(suffix) + 1, Len(s)) = suffix

----------------------------------------------------------------------------
(* PageContentGenerator.run *)

\* The fields of PageConfig that generation and the docs index read
PageConfig(key, page_layouts, output_dir) ==
    [key |-> key,
     filename_prefix |-> <<"d", "o", "c", "s", "-">> \o key \o <<"-">>,
     output_dir |-> output_dir,
     layouts |-> page_layouts]

RunResult(raised_by, text, parsed, paths, disk, folders) ==
    [raised |-> raised_by, markdown_text |-> text, sections |-> parsed,
     written |-> paths, files |-> disk, dirs |-> folders]

RECURSIVE WriteSections(_, _, _, _, _)
\* run, lines 132-152: the loop that renders and writes one file per section
WriteSections(disk, page, out_dir, parsed, i) ==
    IF i > Len(parsed) THEN [files |-> disk, written |-> <<>>]
    ELSE LET filename == page.filename_prefix \o parsed[i].slug \o HtmlSuffix
             output_path == <<out_dir, filename>>
             html == [kind |-> "page", page |-> page.key,
                      slug |-> parsed[i].slug, order |-> parsed[i].order]
             rest == WriteSections(write_text(disk, output_path, html),
                                   page, out_dir, parsed, i + 1)
         IN  [files |-> rest.files, written |-> <<output_path>> \o rest.written]

\* _metadata_path
metadata_path(page) == <<page.output_dir, PAGE_META_TEMPLATE(page.key)>>

\* _write_metadata: the OSError of a missing directory is swallowed
write_metadata(page, first_filename, disk, folders) ==
    IF page.output_dir \in folders
    THEN write_text(disk, metadata_path(page),
                    [kind |-> "meta", text |-> json_dumps(first_filename)])
    ELSE disk

\* run, lines 118-155: everything after the check for sections
render_sections(page, output_dir_override, markdown_source, parsed, disk, folders) ==
    LET out_dir == IF output_dir_override # <<>> THEN output_dir_override[1]
                   ELSE page.output_dir
        made == folders \cup {out_dir}
        out == WriteSections(disk, page, out_dir, parsed, 1)
    IN  IF \E i \in DOMAIN parsed :
               build_section_model(
                   parsed[i], resolve_layout(page.layouts, parsed[i].slug)).raised
        THEN RunResult("IndexError", markdown_source, parsed, <<>>, disk, made)
        ELSE RunResult("", markdown_source, parsed, out.written,
                       IF out.written # <<>>
                       THEN write_metadata(page, out.written[1][2], out.files, made)
                       ELSE out.files,
                       made)

\* run, lines 113-155, without the check for an empty list of sections
run_parsed_unchecked(page, output_dir_override, markdown_source, parsed, disk, folders) ==
    render_sections(page, output_dir_override, markdown_source, parsed, disk, folders)

\* run, lines 113-155: the sections are parsed, parsed is the list
run_parsed(page, output_dir_override, markdown_source, parsed, disk, folders) ==
    IF parsed = <<>>
    THEN RunResult("RuntimeError", markdown_source, parsed, <<>>, disk, folders)
    ELSE render_sections(page, output_dir_override, markdown_source, parsed,
                         disk, folders)

\* run: fetched is <<>> when the download fails, else <<the markdown>>
run(page, output_dir_override, fetched, disk, folders) ==
    IF fetched = <<>>
    THEN RunResult("HTTPError", <<>>, <<>>, <<>>, disk, folders)
    ELSE run_parsed(page, output_dir_override, fetched[1],
                    parse_sections(fetched[1]), disk, folders)

----------------------------------------------------------------------------
(* DocsIndexBuilder *)

\* _doc_file_score
doc_file_score(name) ==
    LET lowered == Lower(name)
    IN  IF Contains(lowered, <<"i", "n", "t", "r", "o", "d", "u", "c", "t", "i", "o", "n">>)
        THEN <<0, lowered>>
        ELSE IF Contains(lowered, <<"g", "e", "t", "t", "i", "n", "g", "-", "s", "t", "a", "r", "t", "e", "d">>)
        THEN <<1, lowered>>
        ELSE <<2, lowered>>

\* Python's a <= b on the (priority, name) tuples
ScoreLE(a, b) == a[1] < b[1] \/ (a[1] = b[1] /\ ~LexLess(b[2], a[2]))

\* page.output_dir.glob(f"{page.filename_prefix}*.html"): the matching names
glob(disk, page) ==
    {p[2] : p \in {q \in DOMAIN disk :
                      /\ q[1] = page.output_dir
                      /\ HasPrefix(q[2], page.filename_prefix)
                      /\ EndsWith(q[2], HtmlSuffix)
                      /\ Len(q[2]) >= Len(page.filename_prefix) + Len(HtmlSuffix)}}

\* os.path.relpath(target, start=relative_to), for sibling directories
relpath(target, relative_to) ==
    IF target[1] = relative_to THEN target[2]
    ELSE <<".", ".", "/">> \o target[1] \o <<"/">> \o target[2]

\* _read_page_metadata: <<>> for None, else <<path>>
read_page_metadata(disk, page) ==
    LET meta_path == metadata_path(page)
    IN  IF ~exists(disk, meta_path) THEN <<>>
        ELSE LET candidate == json_loads(disk[meta_path].text)
                 full_path == <<page.output_dir, candidate>>
             IN  IF candidate = <<>> THEN <<>>
                 ELSE IF ~exists(disk, full_path) THEN <<>>
                 ELSE <<full_path>>

\* _discover_entry_href: <<>> for None, else <<href>>
discover_entry_href(disk, page, relative_to) ==
    LET meta_candidate == read_page_metadata(disk, page)
        names == glob(disk, page)
    IN  IF meta_candidate # <<>> THEN <<relpath(meta_candidate[1], relative_to)>>
        ELSE IF names = {} THEN <<>>
        ELSE LET first == CHOOSE n \in names :
                              \A m \in names : ScoreLE(doc_file_score(n), doc_file_score(m))
             IN  <<relpath(<<page.output_dir, first>>, relative_to)>>

RECURSIVE GatherFrom(_, _, _, _)
\* _gather_entries: one entry per page that has a link, in the order of the pages
GatherFrom(disk, pages, docs_root, i) ==
    IF i > Len(pages) THEN <<>>
    ELSE LET link == discover_entry_href(disk, pages[i], docs_root)
             rest == GatherFrom(disk, pages, docs_root, i + 1)
         IN  IF link = <<>> THEN rest
             ELSE <<[label |-> pages[i].key, href |-> link[1]]>> \o rest

gather_entries(disk, site) == GatherFrom(disk, site.pages, site.docs_index_output[1], 1)

----------------------------------------------------------------------------
(* PageContentGenerator: the navigation groups *)

RECURSIVE RStripChar(_, _)
\* str.rstrip(c)
RStripChar(s, c) ==
    IF s # <<>> /\ s[Len(s)] = c THEN RStripChar(SubSeq(s, 1, Len(s) - 1), c) ELSE s

\* _clean_nav_label: label.strip().rstrip(":").strip()
clean_nav_label(label) == Strip(RStripChar(Strip(label), ":"))

\* _build_nav_groups: one group per section model, its primary entry first
build_nav_groups(page, section_models) ==
    [i \in DOMAIN section_models |->
        LET m == section_models[i]
            page_url == page.filename_prefix \o m.slug \o HtmlSuffix
            group_label == clean_nav_label(m.short_title)
        IN  [label |-> group_label,
             slug |-> m.slug,
             entries |->
                <<[label |-> group_label, href |-> page_url,
                   section_slug |-> m.slug, is_primary |-> TRUE]>>
                \o [k \in DOMAIN m.subsections |->
                       [label |-> clean_nav_label(m.subsections[k].title),
                        href |-> page_url \o <<"#">> \o m.subsections[k].anchor,
                        section_slug |-> m.slug, is_primary |-> FALSE]]]]

----------------------------------------------------------------------------
(* The link rewriter (generator/link_rewriter.py) *)

RECURSIVE FindFrom(_, _, _)
\* Python's s.find(sub, i - 1) + 1: the first position >= i at which sub
\* occurs in s, 0 when there is none
FindFrom(s, sub, i) ==
    IF i + Len(sub) - 1 > Len(s) THEN 0
    ELSE IF SubSeq(s, i, i + Len(sub) - 1) = sub THEN i
    ELSE FindFrom(s, sub, i + 1)

Find(s, sub) == FindFrom(s, sub, 1)

\* urllib.parse.scheme_chars
scheme_chars ==
    Range(LowerLetters) \cup Range(UpperLetters) \cup Range(Digits) \cup {"+", "-", "."}

IsAlpha(c) == c \in Range(LowerLetters) \cup Range(UpperLetters)

\* urlsplit, the scheme: <<scheme, rest>>
SplitScheme(url) ==
    LET i == Find(url, <<":">>)
    IN  IF /\ i > 1
           /\ IsAlpha(url[1])
           /\ \A k \in 1..(i - 1) : url[k] \in scheme_chars
        THEN <<Lower(SubSeq(url, 1, i - 1)), SubSeq(url, i + 1, Len(url))>>
        ELSE <<<<>>, url>>

RECURSIVE NetlocEnd(_, _)
\* _splitnetloc: the position of the first of / ? # at or after i, or the end
NetlocEnd(url, i) ==
    IF i > Len(url) \/ url[i] \in {"/", "?", "#"} THEN i
    ELSE NetlocEnd(url, i + 1)

\* urlsplit, the network location: <<netloc, rest>>
SplitNetloc(url) ==
    IF HasPrefix(url, <<"/", "/">>)
    THEN LET e == NetlocEnd(url, 3)
         IN  <<SubSeq(url, 3, e - 1), SubSeq(url, e, Len(url))>>
    ELSE <<<<>>, url>>

\* Python's s.split(c, 1): <<before, after>>, after empty when c is not in s
SplitOnce(s, c) ==
    LET i == Find(s, <<c>>)
    IN  IF i = 0 THEN <<s, <<>>>>
        ELSE <<SubSeq(s, 1, i - 1), SubSeq(s, i + 1, Len(s))>>

\* urllib.parse.urlsplit, for a url without control characters or spaces
urlsplit(url) ==
    LET s == SplitScheme(url)
        n == SplitNetloc(s[2])
        f == SplitOnce(n[2], "#")
        q == SplitOnce(f[1], "?")
    IN  [scheme |-> s[1], netloc |-> n[1], path |-> q[1],
         query |-> q[2], fragment |-> f[2]]

\* posixpath.join(a, b)
posixpath_join(a, b) ==
    IF HasPrefix(b, <<"/">>) THEN b
    ELSE IF a = <<>> \/ a[Len(a)] = "/" THEN a \o b
    ELSE a \o <<"/">> \o b

RECURSIVE SplitSlash(_)
\* Python's path.split("/")
SplitSlash(path) ==
    LET i == Find(path, <<"/">>)
    IN  IF i = 0 THEN <<path>>
        ELSE <<SubSeq(path, 1, i - 1)>> \o SplitSlash(SubSeq(path, i + 1, Len(path)))

RECURSIVE JoinSlash(_)
\* Python's "/".join(comps)
JoinSlash(comps) ==
    IF comps = <<>> THEN <<>>
    ELSE IF Len(comps) = 1 THEN comps[1]
    ELSE comps[1] \o <<"/">> \o JoinSlash(Tail(comps))

RECURSIVE NormComps(_, _, _, _)
\* posixpath.normpath: the loop over the components
NormComps(comps, i, initial_slashes, new_comps) ==
    IF i > Len(comps) THEN new_comps
    ELSE LET comp == comps[i]
         IN  IF comp \in {<<>>, <<".">>}
             THEN NormComps(comps, i + 1, initial_slashes, new_comps)
             ELSE IF \/ comp # <<".", ".">>
                     \/ (initial_slashes = 0 /\ new_comps = <<>>)
                     \/ (new_comps # <<>> /\ new_comps[Len(new_comps)] = <<".", ".">>)
             THEN NormComps(comps, i + 1, initial_slashes, Append(new_comps, comp))
             ELSE IF new_comps # <<>>
             THEN NormComps(comps, i + 1, initial_slashes,
                            SubSeq(new_comps, 1, Len(new_comps) - 1))
             ELSE NormComps(comps, i + 1, initial_slashes, new_comps)

\* posixpath.normpath
normpath(path) ==
    IF path = <<>> THEN <<".">>
    ELSE LET initial_slashes ==
                 IF ~HasPrefix(path, <<"/">>) THEN 0
                 ELSE IF HasPrefix(path, <<"/", "/">>) /\ ~HasPrefix(path, <<"/", "/", "/">>)
                 THEN 2 ELSE 1
             joined == JoinSlash(NormComps(SplitSlash(path), 1, initial_slashes, <<>>))
             rooted == [k \in 1..initial_slashes |-> "/"] \o joined
         IN  IF rooted = <<>> THEN <<".">> ELSE rooted

RECURSIVE LastSlash(_, _)
LastSlash(path, i) ==
    IF i = 0 \/ path[i] = "/" THEN i ELSE LastSlash(path, i - 1)

RECURSIVE RStripSlash(_)
RStripSlash(s) ==
    IF s # <<>> /\ s[Len(s)] = "/" THEN RStripSlash(SubSeq(s, 1, Len(s) - 1)) ELSE s

\* posixpath.dirname
dirname(path) ==
    LET head == SubSeq(path, 1, LastSlash(path, Len(path)))
    IN  IF head # <<>> /\ \E k \in DOMAIN head : head[k] # "/"
        THEN RStripSlash(head)
        ELSE head

\* A link rewriter that always points at the branch, released or not
build_link_rewriter_branch_only(page) ==
    IF page.repo = <<>> THEN <<>>
    ELSE <<[repo |-> page.repo,
            ref |-> page.branch,
            base_dir |-> dirname(page.doc_path)]>>

\* _build_link_rewriter: <<>> for None, else <<the extension's fields>>
build_link_rewriter(page) ==
    IF page.repo = <<>> THEN <<>>
    ELSE <<[repo |-> page.repo,
            ref |-> IF page.latest_release # <<>> THEN page.latest_release
                    ELSE page.branch,
            base_dir |-> dirname(page.doc_path)]>>

\* _rewrite, line 79: the schemes tested on the lowered target
SkippedPrefixes == {
    <<"h", "t", "t", "p", ":", "/", "/">>,
    <<"h", "t", "t", "p", "s", ":", "/", "/">>,
    <<"m", "a", "i", "l", "t", "o", ":">>,
    <<"t", "e", "l", ":">>,
    <<"d", "a", "t", "a", ":">>,
    <<"j", "a", "v", "a", "s", "c", "r", "i", "p", "t", ":">> }

RECURSIVE StripParents(_)
\* _rewrite, lines 98-99: while joined.startswith("../"): joined = joined[3:]
StripParents(joined) ==
    IF HasPrefix(joined, <<".", ".", "/">>)
    THEN StripParents(SubSeq(joined, 4, Len(joined)))
    ELSE joined

\* _rewrite, lines 106-111
GithubUrl(ext, joined, parsed) ==
    <<"h", "t", "t", "p", "s", ":", "/", "/", "g", "i", "t", "h", "u", "b", ".", "c", "o", "m", "/">>
        \o ext.repo \o <<"/", "b", "l", "o", "b", "/">> \o ext.ref \o <<"/">> \o joined
        \o (IF parsed.query # <<>> THEN <<"?">> \o parsed.query ELSE <<>>)
        \o (IF parsed.fragment # <<>> THEN <<"#">> \o parsed.fragment ELSE <<>>)

\* _rewrite, lines 95-111: the target has passed the tests on its form
rewrite_parsed(ext, parsed) ==
    LET joined == StripParents(normpath(posixpath_join(ext.base_dir, parsed.path)))
    IN  IF joined \in {<<".">>, <<>>} THEN <<>>
        ELSE <<GithubUrl(ext, joined, parsed)>>

\* RelativeLinkTreeprocessor._rewrite: <<>> for None, else <<url>>
rewrite(ext, target) ==
    IF target = <<>> THEN <<>>
    ELSE IF \/ \E p \in SkippedPrefixes : HasPrefix(Lower(target), p)
            \/ HasPrefix(target, <<"#">>)
            \/ HasPrefix(target, <<"/", "/">>)
            \/ Find(target, <<":", "/", "/">>) # 0
    THEN <<>>
    ELSE LET parsed == urlsplit(target)
         IN  IF \/ parsed.scheme # <<>>
                \/ parsed.netloc # <<>>
                \/ (parsed.path = <<>> /\ parsed.fragment # <<>>)
                \/ HasPrefix(parsed.path, <<"/">>)
             THEN <<>>
             ELSE rewrite_parsed(ext, parsed)

\* RelativeLinkTreeprocessor.run, for one anchor: the href it leaves; without
\* a repo the extension is not registered
rewrite_href(page, target) ==
    LET ext == build_link_rewriter(page)
        url == IF ext = <<>> THEN <<>> ELSE rewrite(ext[1], target)
    IN  IF url = <<>> THEN target ELSE url[1]

----------------------------------------------------------------------------
(* df12_pages/bump.py *)

\* A YAML mapping is the sequence of its items [k, v] in document order; a
\* missing value, None and the empty string are all ""

\* page_payload.get(key)
PayloadGet(payload, key) ==
    IF \E i \in DOMAIN payload : payload[i].k = key
    THEN payload[CHOOSE i \in DOMAIN payload : payload[i].k = key].v
    ELSE ""

\* del page_payload[key], when the key is there
PayloadDel(payload, key) == SelectSeq(payload, LAMBDA item : item.k # key)

\* existing_keys.index(anchor) + 1 of the first anchor the mapping has (0: none)
InsertIndex(payload, anchors) ==
    IF \E a \in DOMAIN anchors : \E i \in DOMAIN payload : payload[i].k = anchors[a]
    THEN LET a == CHOOSE b \in DOMAIN anchors :
                      /\ \E i \in DOMAIN payload : payload[i].k = anchors[b]
                      /\ \A c \in 1..(b - 1) :
                             \A i \in DOMAIN payload : payload[i].k # anchors[c]
         IN  CHOOSE i \in DOMAIN payload : payload[i].k = anchors[a]
    ELSE 0

\* _upsert_key
upsert_key(payload, key, value, anchors) ==
    IF \E i \in DOMAIN payload : payload[i].k = key
    THEN [i \in DOMAIN payload |->
             IF payload[i].k = key THEN [k |-> key, v |-> value] ELSE payload[i]]
    ELSE LET at == InsertIndex(payload, anchors)
         IN  IF at = 0 THEN Append(payload, [k |-> key, v |-> value])
             ELSE SubSeq(payload, 1, at) \o <<[k |-> key, v |-> value]>>
                      \o SubSeq(payload, at + 1, Len(payload))

\* _resolve_repo: "" for None
resolve_repo(payload, defaults) ==
    IF PayloadGet(payload, "repo") # "" THEN PayloadGet(payload, "repo")
    ELSE PayloadGet(defaults, "repo")

\* A _record_release that leaves an old publication date in place
record_release_keeps_date(payload, release) ==
    IF release # <<>>
    THEN LET tagged == upsert_key(payload, "latest_release", release[1].tag_name,
                                  <<"repo", "language">>)
         IN  IF release[1].published_at # ""
             THEN upsert_key(tagged, "latest_release_published_at",
                             release[1].published_at,
                             <<"latest_release", "repo", "language">>)
             ELSE tagged
    ELSE PayloadDel(PayloadDel(payload, "latest_release"),
                    "latest_release_published_at")

\* _record_release: the page mapping afterwards (a release is <<>> for None,
\* else <<ReleaseInfo>>)
record_release(payload, release) ==
    IF release # <<>>
    THEN LET tagged == upsert_key(payload, "latest_release", release[1].tag_name,
                                  <<"repo", "language">>)
         IN  IF release[1].published_at # ""
             THEN upsert_key(tagged, "latest_release_published_at",
                             release[1].published_at,
                             <<"latest_release", "repo", "language">>)
             ELSE PayloadDel(tagged, "latest_release_published_at")
    ELSE PayloadDel(PayloadDel(payload, "latest_release"),
                    "latest_release_published_at")

RECURSIVE BumpFrom(_, _, _, _, _, _)
\* bump_latest_release_metadata, lines 74-83: the loop over pages.items();
\* responses.releases[n] is what the n-th fetch_latest call returns, and
\* responses.raises the number of the call that raises (0: none does)
BumpFrom(pages, i, defaults, responses, calls, results) ==
    IF i > Len(pages)
    THEN [raised |-> FALSE, pages |-> pages, calls |-> calls, results |-> results]
    ELSE IF ~pages[i].mapping \/ resolve_repo(pages[i].payload, defaults) = ""
    THEN BumpFrom(pages, i + 1, defaults, responses, calls, results)
    ELSE IF responses.raises = Len(calls) + 1
    THEN [raised |-> TRUE, pages |-> pages, calls |-> calls, results |-> results]
    ELSE LET release == responses.releases[Len(calls) + 1]
         IN  BumpFrom([pages EXCEPT ![i].payload = record_release(@, release)],
                      i + 1, defaults, responses,
                      Append(calls, [repo |-> resolve_repo(pages[i].payload, defaults),
                                     release |-> release]),
                      Append(results, [key |-> pages[i].key, release |-> release]))

\* bump_latest_release_metadata for a document with pages: the loop
bump_latest_release_metadata(document, responses) ==
    BumpFrom(document.pages, 1, document.defaults, responses, <<>>, <<>>)

\* A bump that writes the document back whether or not the loop ended
dump_as_processed(document, outcome) == [document EXCEPT !.pages = outcome.pages]

\* bump_latest_release_metadata, lines 85-86: the file after the call.  The
\* document is dumped after the loop, so not when fetch_latest raised
dump(document, outcome) ==
    IF outcome.raised THEN document ELSE [document EXCEPT !.pages = outcome.pages]

----------------------------------------------------------------------------
(* df12_pages/deploy.py: init_stack, plan_stack, apply_stack *)

\* ensure_backend_bucket: whether it returns.  aws is what the aws CLI does:
\* "missing" (no executable, FileNotFoundError), "head_ok", "created"
\* (head-bucket fails, create-bucket succeeds), "create_failed"
ensure_backend_bucket(aws) == aws \in {"head_ok", "created"}

\* The steps inside try: as if init_stack ran tofu init before the bucket check
try_steps_init_first(call) ==
    IF call.fn = "init_stack"
    THEN <<"tofu init">>
             \o (IF call.ensure_bucket THEN <<"ensure_backend_bucket">> ELSE <<>>)
    ELSE <<"ensure_backend_bucket">>
             \o (IF call.run_init THEN <<"tofu init">> ELSE <<>>)
             \o <<IF call.fn = "plan_stack" THEN "tofu plan" ELSE "tofu apply">>

\* The steps inside try of init_stack (lines 424-436), plan_stack (lines
\* 461-482) and apply_stack (lines 507-524), in program order
try_steps(call) ==
    IF call.fn = "init_stack"
    THEN (IF call.ensure_bucket THEN <<"ensure_backend_bucket">> ELSE <<>>)
             \o <<"tofu init">>
    ELSE <<"ensure_backend_bucket">>
             \o (IF call.run_init THEN <<"tofu init">> ELSE <<>>)
             \o <<IF call.fn = "plan_stack" THEN "tofu plan" ELSE "tofu apply">>

\* A finally block that forgets the tfvars file
unlink_backend_only(existing, backend_file, tfvars_file) ==
    existing \ {backend_file}

\* finally: materialized_backend.unlink(missing_ok=True), then
\* materialized_tfvars.unlink(missing_ok=True)
unlink_materialized(existing, backend_file, tfvars_file) ==
    (existing \ {backend_file}) \ {tfvars_file}

----------------------------------------------------------------------------
(* df12_pages/deploy.py: resolve_credentials and save_credentials *)

\* The fields of CredentialSet.  A value is <<>> for None and <<text>> for a
\* string; a credential set, the explicit arguments and the environment are
\* functions from the fields to such values
CredentialFields ==
    {"aws_access_key_id", "aws_secret_access_key", "scw_access_key",
     "scw_secret_key", "cloudflare_api_token", "github_token", "region",
     "s3_endpoint"}

\* Python's a or b
Or(a, b) == IF a = <<>> \/ a = << <<>> >> THEN b ELSE a

RECURSIVE TomlEscape(_)
\* tomlkit.dumps of a string, without the quotes around it
TomlEscape(text) ==
    IF text = <<>> THEN <<>>
    ELSE (IF Head(text) \in {"\"", "\\"} THEN <<"\\", Head(text)>> ELSE <<Head(text)>>)
             \o TomlEscape(Tail(text))

RECURSIVE TomlUnescape(_)
\* tomlkit.parse of the inside of a basic string
TomlUnescape(text) ==
    IF text = <<>> THEN <<>>
    ELSE IF Head(text) = "\\" /\ Len(text) >= 2
    THEN <<text[2]>> \o TomlUnescape(SubSeq(text, 3, Len(text)))
    ELSE <<Head(text)>> \o TomlUnescape(Tail(text))

\* table.get(key) of a parsed table: the file keeps the keys that are set,
\* each with the text of its value
TomlGet(table, key) ==
    IF key \in DOMAIN table
    THEN <<TomlUnescape(SubSeq(table[key], 2, Len(table[key]) - 1))>>
    ELSE <<>>

\* _load_config: the stored CredentialSet and the backend
load_config(file) ==
    [auth |-> [f \in CredentialFields |-> TomlGet(file.auth, f)],
     backend |-> [region |-> TomlGet(file.backend, "region")[1],
                  endpoint |-> TomlGet(file.backend, "endpoint")]]

\* CredentialSet.with_fallbacks
with_fallbacks(c) ==
    LET access == Or(c["aws_access_key_id"], c["scw_access_key"])
        secret == Or(c["aws_secret_access_key"], c["scw_secret_key"])
    IN  [c EXCEPT !["aws_access_key_id"] = access,
                  !["aws_secret_access_key"] = secret,
                  !["scw_access_key"] = Or(c["scw_access_key"], access),
                  !["scw_secret_key"] = Or(c["scw_secret_key"], secret)]

\* A save_credentials that persists the keys and leaves the region and the
\* endpoint of [auth] as they were
save_credentials_keys_only(creds, file) ==
    [file EXCEPT !.auth =
        [f \in {g \in CredentialFields :
                    IF g \in {"region", "s3_endpoint"} THEN g \in DOMAIN file.auth
                    ELSE creds[g] # <<>>} |->
            IF f \in {"region", "s3_endpoint"} THEN file.auth[f]
            ELSE <<"\"">> \o TomlEscape(creds[f][1]) \o <<"\"">>]]

\* save_credentials on a file that exists and has its [backend] table: every
\* field that is None is popped from [auth], every other one is set
save_credentials(creds, file) ==
    [file EXCEPT !.auth =
        [f \in {g \in CredentialFields : creds[g] # <<>>} |->
            <<"\"">> \o TomlEscape(creds[f][1]) \o <<"\"">>]]

\* resolve_credentials, lines 222-249: argument, else environment, else
\* stored value, else (region and s3_endpoint) the backend's; env[f] is the
\* os.getenv chain of the field
resolved(explicit, env, deploy_config) ==
    with_fallbacks(
        [f \in CredentialFields |->
            LET merged == Or(Or(explicit[f], env[f]), deploy_config.auth[f])
            IN  IF f = "region" THEN Or(merged, <<deploy_config.backend.region>>)
                ELSE IF f = "s3_endpoint" THEN Or(merged, deploy_config.backend.endpoint)
                ELSE merged])

\* resolve_credentials(config_path=..., save=...): CredentialError without
\* an access key or a secret key, else the set, saved when asked
resolve_credentials(file, explicit, env, save) ==
    LET creds == resolved(explicit, env, load_config(file))
    IN  IF Or(creds["aws_access_key_id"], <<>>) = <<>>
           \/ Or(creds["aws_secret_access_key"], <<>>) = <<>>
        THEN [raised |-> TRUE, creds |-> <<>>, file |-> file]
        ELSE [raised |-> FALSE, creds |-> creds,
              file |-> IF save THEN save_credentials(creds, file) ELSE file]

----------------------------------------------------------------------------
(* PageContentGenerator: the timestamp of the page *)

\* A datetime is its reading in hours and its UTC offset, <<>> when it is
\* naive.  In text a timestamp is one digit, followed by nothing (naive), by
\* a zone letter or by a sign and a digit
datetime(wall, offset) == [wall |-> wall, offset |-> offset]

UTC == <<0>>

\* d.replace(tzinfo=UTC) for a naive d, d.astimezone(UTC) otherwise
to_utc(d) ==
    IF d.offset = <<>> THEN datetime(d.wall, UTC)
    ELSE datetime(d.wall - d.offset[1], UTC)

DigitValue(c) == (CHOOSE i \in DOMAIN Digits : Digits[i] = c) - 1

RECURSIVE ReplaceZ(_)
\* sanitized.replace("Z", "+00:00")
ReplaceZ(text) ==
    IF text = <<>> THEN <<>>
    ELSE (IF Head(text) = "Z" THEN <<"+", "0">> ELSE <<Head(text)>>) \o ReplaceZ(Tail(text))

\* The datetime a digit and an optional offset stand for, <<>> for text
\* that is no timestamp
ParseStamp(text) ==
    IF Len(text) = 1 /\ IsDigit(text[1])
    THEN <<datetime(DigitValue(text[1]), <<>>)>>
    ELSE IF Len(text) = 3 /\ IsDigit(text[1]) /\ text[2] \in {"+", "-"} /\ IsDigit(text[3])
    THEN <<datetime(DigitValue(text[1]),
                    <<IF text[2] = "+" THEN DigitValue(text[3]) ELSE 0 - DigitValue(text[3])>>)>>
    ELSE <<>>

\* dt.datetime.fromisoformat, <<>> for ValueError
fromisoformat(text) == ParseStamp(text)

\* _normalize_commit_date: a datetime, a string, or None and anything else
normalize_commit_date(value) ==
    IF value.kind = "datetime" THEN <<to_utc(value.date[1])>>
    ELSE IF value.kind = "str"
    THEN IF Strip(value.text) = <<>> \/ fromisoformat(ReplaceZ(Strip(value.text))) = <<>>
         THEN <<>>
         ELSE <<to_utc(fromisoformat(ReplaceZ(Strip(value.text)))[1])>>
    ELSE <<>>

RECURSIVE FirstNormalized(_)
\* _extract_commit_timestamp, lines 220-226: the first date that normalizes
FirstNormalized(dates) ==
    IF dates = <<>> THEN <<>>
    ELSE IF normalize_commit_date(Head(dates)) # <<>> THEN normalize_commit_date(Head(dates))
    ELSE FirstNormalized(Tail(dates))

\* _extract_commit_timestamp: commit.payload is <<>> for a commit without
\* `commit`, else the dates of its author and of its committer
extract_commit_timestamp(commit) ==
    IF commit.payload = <<>> THEN <<>> ELSE FirstNormalized(commit.payload[1])

\* _fetch_doc_commit_date: None unless the repo is owner/name, the repository
\* and its commits are found and the latest commit carries a date.  The
\* iterator github3 returns requests on iteration, outside the try blocks
fetch_doc_commit_date(page, lookup) ==
    LET slash == Find(page.repo, <<"/">>)
    IN  IF page.repo = <<>> \/ slash = 0 \/ slash = 1 \/ slash = Len(page.repo)
        THEN [raised |-> FALSE, value |-> <<>>]
        ELSE IF lookup.repository # "found" \/ lookup.commits = "error"
        THEN [raised |-> FALSE, value |-> <<>>]
        ELSE IF lookup.commits = "raises"
        THEN [raised |-> TRUE, value |-> <<>>]
        ELSE IF lookup.listed = <<>>
        THEN [raised |-> FALSE, value |-> <<>>]
        ELSE [raised |-> FALSE, value |-> extract_commit_timestamp(lookup.listed[1])]

\* A _resolve_doc_updated_at that asks for the commit date first
resolve_doc_updated_at_commit_first(page, lookup) ==
    IF fetch_doc_commit_date(page, lookup).value # <<>>
       \/ fetch_doc_commit_date(page, lookup).raised
    THEN fetch_doc_commit_date(page, lookup)
    ELSE [raised |-> FALSE, value |-> page.latest_release_published_at]

\* _resolve_doc_updated_at
resolve_doc_updated_at(page, lookup) ==
    IF page.latest_release_published_at # <<>>
    THEN [raised |-> FALSE, value |-> page.latest_release_published_at]
    ELSE fetch_doc_commit_date(page, lookup)

\* email.utils.parsedate_to_datetime: a date with zone -0 is naive; <<>> for
\* TypeError or ValueError
parsedate_to_datetime(text) ==
    IF Len(text) = 2 /\ IsDigit(text[1]) /\ text[2] = "G"
    THEN <<datetime(DigitValue(text[1]), UTC)>>
    ELSE IF Len(text) = 3 /\ text[2] = "-" /\ text[3] = "0" /\ IsDigit(text[1])
    THEN <<datetime(DigitValue(text[1]), <<>>)>>
    ELSE IF Len(text) = 3 THEN ParseStamp(text)
    ELSE <<>>

\* dt.datetime.now(dt.UTC)
now(reading) == datetime(reading, UTC)

\* _extract_timestamp
extract_timestamp(header_value, reading) ==
    IF Or(header_value, <<>>) # <<>> /\ parsedate_to_datetime(header_value[1]) # <<>>
    THEN to_utc(parsedate_to_datetime(header_value[1])[1])
    ELSE now(reading)

\* _fetch_markdown: raise_for_status raises on an error status; the header
\* is read only when doc_updated_at is not set yet
fetch_markdown(self_doc_updated_at, response, reading) ==
    IF response.status # 200
    THEN [raised |-> TRUE, doc_updated_at |-> self_doc_updated_at]
    ELSE [raised |-> FALSE,
          doc_updated_at |->
              IF self_doc_updated_at = <<>>
              THEN <<extract_timestamp(response.last_modified, reading)>>
              ELSE self_doc_updated_at]

----------------------------------------------------------------------------
(* df12_pages/docs_index.py: ManifestDescriptionResolver *)

\* A manifest is the text of a response: TOML, JSON or neither.  A TOML
\* document is its tables package, project and workspace; a JSON document is
\* an object with or without a description, or another value.  A table is
\* absent, a scalar, or a table with or without a description.
Table(kind, description) == [kind |-> kind, description |-> description]

\* (data.get(name) or {}).get("description")
TableDescription(table) ==
    IF table.kind = "scalar" THEN [raised |-> "AttributeError", value |-> <<>>]
    ELSE IF table.kind = "absent" THEN [raised |-> "", value |-> <<>>]
    ELSE [raised |-> "", value |-> table.description]

\* _extract_description: tomllib.loads and json.loads raise a ValueError on
\* text of the other format; .get on a value that is no mapping raises
\* AttributeError
extract_description(text, language, url) ==
    IF language \in {"rust", "python"} \/ url[Len(url)] = ".toml"
    THEN IF text.format # "toml" THEN [raised |-> "ValueError", value |-> <<>>]
         ELSE IF language = "python" THEN TableDescription(text.project)
         ELSE IF TableDescription(text.package).raised # ""
                 \/ Or(TableDescription(text.package).value, <<>>) # <<>>
         THEN TableDescription(text.package)
         ELSE TableDescription(text.workspace)
    ELSE IF language = "typescript" \/ url[Len(url)] = ".json"
    THEN IF text.format # "json" THEN [raised |-> "ValueError", value |-> <<>>]
         ELSE TableDescription(text.top)
    ELSE IF text.format # "json" THEN [raised |-> "", value |-> <<>>]
    ELSE TableDescription(text.top)

\* f"Reference docs for {page.label}."
Fallback(page) == <<"Reference docs for ", page.label, ".">>

\* ManifestDescriptionResolver.resolve: whether it requested, what it raised
\* or returned, and the cache it leaves
resolve(cache, page, response) ==
    LET url == page.manifest_url
        extracted == extract_description(response.text, page.language, url)
        description ==
            IF extracted.raised = "ValueError" \/ Or(extracted.value, <<>>) = <<>>
            THEN Fallback(page)
            ELSE extracted.value[1]
    IN  IF url = <<>>
        THEN [requested |-> FALSE, raised |-> "", value |-> Fallback(page), cache |-> cache]
        ELSE IF url \in DOMAIN cache
        THEN [requested |-> FALSE, raised |-> "", value |-> cache[url], cache |-> cache]
        ELSE IF response.status # 200
        THEN [requested |-> TRUE, raised |-> "", value |-> Fallback(page), cache |-> cache]
        ELSE IF extracted.raised = "AttributeError"
        THEN [requested |-> TRUE, raised |-> "AttributeError", value |-> <<>>,
              cache |-> cache]
        ELSE [requested |-> TRUE, raised |-> "", value |-> description,
              cache |-> (url :> description) @@ cache]

----------------------------------------------------------------------------
(* The parser applied to bounded documents *)

MaxLines == 4

DocLines == <<
    <<"#", "#", " ", "F", "o", "o">>,
    <<"#", "#", " ", "F", "o", "o", " ", "2">>,
    <<"#", "#", " ", "1", ".", " ", "f", "o", "o">>,
    <<"#", "#", " ", "\\", "!">>,
    <<"b", "o", "d", "y">>,
    <<"#", "#", "#", " ", "S", "u", "b">>,
    <<"*", "*", "B", "o", "l", "d", "*", "*">>,
    <<BackTick, BackTick, BackTick>> >>

RECURSIVE SeqsUpTo(_, _)
\* The sequences over S of length 0..n
SeqsUpTo(S, n) ==
    IF n = 0 THEN {<<>>}
    ELSE LET shorter == SeqsUpTo(S, n - 1)
         IN  shorter \cup {Append(s, x) : s \in shorter, x \in S}

Documents == {JoinLines(ls) : ls \in SeqsUpTo(Range(DocLines), MaxLines)}

ParserIdle == markdown_text = <<>> /\ sections = <<>> /\ pstate = "idle"

NoModel == [layout |-> "none"]

NoSection == [slug |-> <<>>]

BuilderIdle ==
    section = NoSection /\ layouts = <<>> /\ model = NoModel /\ mstate = "idle"

NoSite == [pages |-> <<>>]

NoArgs == [page |-> <<>>]

RunIdle ==
    /\ site_config = NoSite /\ args = NoArgs /\ pc = "idle" /\ cursor = 0
    /\ files = NoFiles /\ dirs = {} /\ written = <<>> /\ raised = "" /\ runs = 0

NoLinkPage == [repo |-> <<>>]

LinkIdle ==
    link_page = NoLinkPage /\ link_target = <<>> /\ href = <<>> /\ lstate = "idle"

NoCall == [page |-> <<>>]

ResolverIdle ==
    res_cache = <<>> /\ res_completed = <<>> /\ res_last = NoCall /\ res_calls = 0

UpdIdle ==
    /\ upd_page = <<>> /\ upd_lookup = <<>> /\ upd_response = <<>> /\ clock = 0
    /\ doc_updated_at = <<>> /\ context = <<>> /\ ustate = "idle"

CredsIdle ==
    /\ config_file = <<>> /\ cred_args = <<>> /\ environ = <<>>
    /\ saved_creds = <<>> /\ loaded_creds = <<>> /\ tofu_env = <<>> /\ cstate = "idle"

DeployIdle ==
    /\ deploy_call = [fn |-> "none"] /\ dpc = "idle" /\ tmp_files = {}
    /\ tmp_made = 0 /\ commands = <<>> /\ deploys = 0

BumpIdle ==
    /\ bump_doc = <<>> /\ bump_before = <<>> /\ bump_calls = <<>>
    /\ bump_results = <<>> /\ bstate = "idle" /\ bumps = 0

NavIdle ==
    /\ nav_doc = <<>>
    /\ nav_models = <<>>
    /\ nav_groups = <<>>
    /\ nstate = "idle"

RenderIdle ==
    /\ render_doc = <<>>
    /\ render_html = <<>>
    /\ rstate = "idle"

InitParse ==
    /\ markdown_text \in Documents
    /\ sections = <<>>
    /\ pstate = "input"
    /\ BuilderIdle
    /\ RunIdle
    /\ LinkIdle
    /\ RenderIdle
    /\ NavIdle
    /\ BumpIdle
    /\ DeployIdle
    /\ CredsIdle
    /\ UpdIdle
    /\ ResolverIdle

Parse ==
    /\ pstate = "input"
    /\ sections' = parse_sections(markdown_text)
    /\ pstate' = "parsed"
    /\ UNCHANGED <<markdown_text, builder_vars, run_vars, link_vars, render_vars, nav_vars, bump_vars, deploy_vars, creds_vars, upd_vars, res_vars>>

NextParse == Parse

SpecParse == InitParse /\ [][NextParse]_vars

----------------------------------------------------------------------------
(* The section model builder applied to bounded sections and layouts *)

MaxBodyLines == 3

MaxEmphasized == 2

SectionHeading == <<"#", "#", " ", "S", "e", "t", "u", "p">>

BodyLines == <<
    <<"#", "#", "#", " ", "I", "n", "s", "t", "a", "l", "l">>,
    <<"#", "#", "#", " ", "C", "o", "n", "f", "i", "g", "u", "r", "e">>,
    <<"#", "#", "#", " ", "!", "!">>,
    <<"*", "*", "N", "o", "t", "e", "s", ":", "*", "*">>,
    <<"r", "u", "n", " ", "i", "t">>,
    <<BackTick, BackTick, BackTick, "p", "y", "\n", "x", " ", "=", " ", "1", "\n", BackTick, BackTick, BackTick>>,
    <<BackTick, BackTick, BackTick, "\n", "l", "s", "\n", BackTick, BackTick, BackTick>> >>

StepOrders == {
    <<>>,
    << <<"C", "o", "n", "f", "i", "g", "u", "r", "e">>, <<"I", "n", "s", "t", "a", "l", "l">> >>,
    << <<"I", "N", "S", "T", "A", "L", "L">>, <<"M", "i", "s", "s", "i", "n", "g">> >> }

Emphasized == {<<>>} \cup {<<n>> : n \in (0 - MaxEmphasized)..MaxEmphasized}

Layouts ==
    {SectionLayout("default", <<>>, <<>>)}
        \cup {SectionLayout("numbered_steps", o, <<>>) : o \in StepOrders}
        \cup {SectionLayout("split_panel", <<>>, e) : e \in Emphasized}

SetupSlug == <<"s", "e", "t", "u", "p">>

\* PageConfig.layouts: no entry, or an entry for the section
LayoutMaps == {<<>>} \cup {[k \in {SetupSlug} |-> l] : l \in Layouts}

Sections ==
    {parse_sections(JoinLines(<<SectionHeading>> \o ls))[1] :
        ls \in SeqsUpTo(Range(BodyLines), MaxBodyLines)}

InitModel ==
    /\ section \in Sections
    /\ layouts \in LayoutMaps
    /\ model = NoModel
    /\ mstate = "input"
    /\ ParserIdle
    /\ RunIdle
    /\ LinkIdle
    /\ RenderIdle
    /\ NavIdle
    /\ BumpIdle
    /\ DeployIdle
    /\ CredsIdle
    /\ UpdIdle
    /\ ResolverIdle

\* PageContentGenerator.run, lines 125-126: one turn of the loop over sections
BuildSectionModel ==
    /\ mstate = "input"
    /\ LET layout == resolve_layout(layouts, section.slug)
           r == build_section_model(section, layout)
       IN  IF r.raised
           THEN mstate' = "raised" /\ model' = NoModel
           ELSE mstate' = "built" /\ model' = r.model
    /\ UNCHANGED <<section, layouts, parser_vars, run_vars, link_vars, render_vars, nav_vars, bump_vars, deploy_vars, creds_vars, upd_vars, res_vars>>

NextModel == BuildSectionModel

SpecModel == InitModel /\ [][NextModel]_vars

----------------------------------------------------------------------------
(* The `pages generate` command over bounded sites, documents and runs *)

MaxPages == 2

MaxRuns == 2

PublicDir == <<"p", "u", "b", "l", "i", "c">>

OverrideDir == <<"d", "i", "s", "t">>

FooSlug == <<"f", "o", "o">>

\* PageConfig.layouts of a page: nothing, or a split panel for the section foo
\* whose emphasized_code_block is negative
RunLayoutMaps ==
    {<<>>, [k \in {FooSlug} |-> SectionLayout("split_panel", <<>>, <<0 - 2>>)]}

\* SiteConfig: pages a, b, ... in the order of the configuration file, with
\* the layouts they share
Sites ==
    {[pages |-> [i \in 1..n |-> PageConfig(<<LowerLetters[i]>>, ls, PublicDir)],
      docs_index_output |->
          <<PublicDir, <<"d", "o", "c", "s", ".", "h", "t", "m", "l">> >>] :
        n \in 1..MaxPages, ls \in RunLayoutMaps}

\* The options of `pages generate`; <<>> is None
Args(site) ==
    [page : {<<>>} \cup {<<site.pages[i].key>> : i \in DOMAIN site.pages},
     source_url : {<<>>, <<"url">>},
     output_dir : {<<>>, <<OverrideDir>>}]

\* What the source URL may serve
RunDocs == {
    JoinLines(<< <<"#", "#", " ", "F", "o", "o">>, <<"#", "#", " ", "F", "o", "o">>,
                 <<"#", "#", " ", "F", "o", "o">> >>),
    JoinLines(<< <<"i", "n", "t", "r", "o">>, <<"#", "#", "#", " ", "S", "u", "b">> >>),
    JoinLines(<< <<"#", "#", " ", "Z", "e", "t", "a">>,
                 <<"#", "#", " ", "I", "n", "t", "r", "o", "d", "u", "c", "t", "i", "o", "n">> >>),
    JoinLines(<< <<"#", "#", " ", "F", "o", "o">>, <<BackTick, BackTick, BackTick>>,
                 <<"l", "s">>, <<BackTick, BackTick, BackTick>> >>) }

\* _fetch_markdown: an HTTP error, or the text of the response
FetchResults == {<<>>} \cup {<<d>> : d \in RunDocs}

\* SiteConfig.get_page
get_page(site, key) ==
    site.pages[CHOOSE i \in DOMAIN site.pages : site.pages[i].key = key]

\* generate, lines 114-117
target_pages ==
    IF args.page # <<>> THEN <<get_page(site_config, args.page[1])>>
    ELSE site_config.pages

InitRun ==
    /\ site_config \in Sites
    /\ args \in Args(site_config)
    /\ pc = "pages"
    /\ cursor = 1
    /\ files = NoFiles
    /\ dirs = {}
    /\ written = <<>>
    /\ raised = ""
    /\ runs = 1
    /\ ParserIdle
    /\ BuilderIdle
    /\ LinkIdle
    /\ RenderIdle
    /\ NavIdle
    /\ BumpIdle
    /\ DeployIdle
    /\ CredsIdle
    /\ UpdIdle
    /\ ResolverIdle

\* generate, lines 119-121
RejectOverrides ==
    /\ pc = "pages"
    /\ cursor = 1
    /\ Len(target_pages) > 1
    /\ args.source_url # <<>> \/ args.output_dir # <<>>
    /\ pc' = "failed"
    /\ raised' = "ValueError"
    /\ UNCHANGED <<site_config, args, cursor, files, dirs, written, runs,
                   parser_vars, builder_vars, link_vars, render_vars, nav_vars, bump_vars, deploy_vars, creds_vars, upd_vars, res_vars>>

OverridesAllowed ==
    Len(target_pages) = 1 \/ (args.source_url = <<>> /\ args.output_dir = <<>>)

\* generate, lines 127-129: run() returned r
Returned(r) ==
    /\ r.raised = ""
    /\ markdown_text' = r.markdown_text
    /\ sections' = r.sections
    /\ pstate' = "parsed"
    /\ written' = r.written
    /\ files' = r.files
    /\ dirs' = r.dirs

\* generate, lines 123-129: one turn of the loop, run() returning
RunPage ==
    /\ pc = "pages"
    /\ OverridesAllowed
    /\ \E fetched \in FetchResults :
          Returned(run(target_pages[cursor], args.output_dir, fetched, files, dirs))
    /\ cursor' = cursor + 1
    /\ pc' = IF cursor = Len(target_pages) THEN "index" ELSE "pages"
    /\ UNCHANGED <<site_config, args, raised, runs, builder_vars, link_vars, render_vars, nav_vars, bump_vars, deploy_vars, creds_vars, upd_vars, res_vars>>

\* generate, line 127: run() raised, r is what it left behind
Raised(r) ==
    /\ r.raised # ""
    /\ markdown_text' = r.markdown_text
    /\ sections' = r.sections
    /\ pstate' = IF r.raised = "HTTPError" THEN "idle" ELSE "parsed"
    /\ raised' = r.raised
    /\ files' = r.files
    /\ dirs' = r.dirs

\* generate, lines 123-127: run() raising; nothing catches the exception
RunPageRaises ==
    /\ pc = "pages"
    /\ OverridesAllowed
    /\ \E fetched \in FetchResults :
          Raised(run(target_pages[cursor], args.output_dir, fetched, files, dirs))
    /\ pc' = "failed"
    /\ UNCHANGED <<site_config, args, cursor, written, runs, builder_vars, link_vars, render_vars, nav_vars, bump_vars, deploy_vars, creds_vars, upd_vars, res_vars>>

\* generate, lines 130-131: DocsIndexBuilder(site_config).run(); neither a
\* homepage nor an about page is configured, so lines 132-137 do nothing
BuildDocsIndex ==
    /\ pc = "index"
    /\ LET output_path == site_config.docs_index_output
           html == [kind |-> "index", entries |-> gather_entries(files, site_config)]
       IN  /\ dirs' = dirs \cup {output_path[1]}
           /\ files' = write_text(files, output_path, html)
    /\ pc' = "done"
    /\ UNCHANGED <<site_config, args, cursor, written, raised, runs,
                   parser_vars, builder_vars, link_vars, render_vars, nav_vars, bump_vars, deploy_vars, creds_vars, upd_vars, res_vars>>

\* The command is invoked again with the same options on the same disk
Generate ==
    /\ pc \in {"done", "failed"}
    /\ runs < MaxRuns
    /\ runs' = runs + 1
    /\ pc' = "pages"
    /\ cursor' = 1
    /\ written' = <<>>
    /\ raised' = ""
    /\ markdown_text' = <<>>
    /\ sections' = <<>>
    /\ pstate' = "idle"
    /\ UNCHANGED <<site_config, args, files, dirs, builder_vars, link_vars, render_vars, nav_vars, bump_vars, deploy_vars, creds_vars, upd_vars, res_vars>>

NextRun == RejectOverrides \/ RunPage \/ RunPageRaises \/ BuildDocsIndex \/ Generate

SpecRun == InitRun /\ [][NextRun]_vars

----------------------------------------------------------------------------
(* The link rewriter applied to bounded link targets *)

MaxLinkParts == 3

LinkParts == <<
    <<".", ".", "/">>,
    <<".", ".">>,
    <<".", "/">>,
    <<"a", "/">>,
    <<"x", ".", "m", "d">>,
    <<"/">>,
    <<"/", "/">>,
    <<"#", "f">>,
    <<"?", "q">>,
    <<"t", "e", "l", ":">>,
    <<"H", "t", "t", "p", ":">> >>

RECURSIVE Concat(_)
Concat(parts) == IF parts = <<>> THEN <<>> ELSE Head(parts) \o Concat(Tail(parts))

\* The href attributes of the anchors of a document
Targets == {Concat(ps) : ps \in SeqsUpTo(Range(LinkParts), MaxLinkParts)}

\* The fields of PageConfig that the link rewriter reads; <<>> is None
LinkPage(repo, branch, latest_release, doc_path) ==
    [repo |-> repo, branch |-> branch, latest_release |-> latest_release,
     doc_path |-> doc_path]

MainBranch == <<"m", "a", "i", "n">>

RepoName == <<"o", "/", "r">>

LinkPages == {
    LinkPage(<<>>, MainBranch, <<>>, <<"d", "o", "c", "s", "/", "g", "u", "i", "d", "e", ".", "m", "d">>),
    LinkPage(RepoName, MainBranch, <<>>, <<"R", "E", "A", "D", "M", "E", ".", "m", "d">>),
    LinkPage(RepoName, MainBranch, <<"v", "1">>, <<"d", "o", "c", "s", "/", "g", "u", "i", "d", "e", ".", "m", "d">>),
    LinkPage(RepoName, MainBranch, <<>>, <<"d", "o", "c", "s", "/", "a", "/", "g", "u", "i", "d", "e", ".", "m", "d">>) }

InitLink ==
    /\ link_page \in LinkPages
    /\ link_target \in Targets
    /\ href = link_target
    /\ lstate = "input"
    /\ ParserIdle
    /\ BuilderIdle
    /\ RunIdle
    /\ RenderIdle
    /\ NavIdle
    /\ BumpIdle
    /\ DeployIdle
    /\ CredsIdle
    /\ UpdIdle
    /\ ResolverIdle

\* RelativeLinkTreeprocessor.run on an anchor whose href is link_target
RewriteLink ==
    /\ lstate = "input"
    /\ href' = rewrite_href(link_page, link_target)
    /\ lstate' = "done"
    /\ UNCHANGED <<link_page, link_target, parser_vars, run_vars, builder_vars, render_vars, nav_vars, bump_vars, deploy_vars, creds_vars, upd_vars, res_vars>>

NextLink == RewriteLink

SpecLink == InitLink /\ [][NextLink]_vars

----------------------------------------------------------------------------
(* The renderer applied to bounded documents *)

MaxBlocks == 3

\* The blocks a document is made of: the text, whether a fence produces a
\* highlighted block from it, and the language the fence declares
RenderBlocks == {
    [text |-> <<"p">>, code |-> FALSE, fenced |-> FALSE, lang |-> <<>>],
    [text |-> <<BackTick, BackTick, BackTick, "r", "s", "\n", "f", "n", "\n",
                BackTick, BackTick, BackTick>>,
     code |-> TRUE, fenced |-> TRUE, lang |-> <<"r", "s">>],
    [text |-> <<BackTick, BackTick, BackTick, "\n", "l", "s", "\n",
                BackTick, BackTick, BackTick>>,
     code |-> TRUE, fenced |-> TRUE, lang |-> <<>>],
    [text |-> <<BackTick, BackTick, BackTick, "r", "s", ",", "n", "o", "\n", "f", "n", "\n",
                BackTick, BackTick, BackTick>>,
     code |-> TRUE, fenced |-> TRUE, lang |-> <<"r", "s">>],
    [text |-> <<" ", " ", BackTick, BackTick, BackTick, "s", "h", "\n", " ", " ", "l", "s", "\n",
                " ", " ", BackTick, BackTick, BackTick>>,
     code |-> TRUE, fenced |-> TRUE, lang |-> <<"s", "h">>],
    [text |-> <<"~", "~", "~", "p", "y", "\n", "x", "\n", "~", "~", "~">>,
     code |-> TRUE, fenced |-> TRUE, lang |-> <<"p", "y">>],
    [text |-> <<" ", " ", " ", " ", "c", "c">>,
     code |-> TRUE, fenced |-> FALSE, lang |-> <<>>]}

RECURSIVE RenderText(_)
\* The markdown of a document: its blocks, a blank line between two
RenderText(doc) ==
    IF doc = <<>> THEN <<>>
    ELSE IF Len(doc) = 1 THEN doc[1].text
    ELSE doc[1].text \o <<"\n", "\n">> \o RenderText(Tail(doc))

InitRender ==
    /\ render_doc \in SeqsUpTo(RenderBlocks, MaxBlocks)
    /\ render_html = <<>>
    /\ rstate = "input"
    /\ ParserIdle
    /\ BuilderIdle
    /\ RunIdle
    /\ LinkIdle
    /\ NavIdle
    /\ BumpIdle
    /\ DeployIdle
    /\ CredsIdle
    /\ UpdIdle
    /\ ResolverIdle

\* html = renderer.markdown(text)
RenderMarkdown ==
    /\ rstate = "input"
    /\ render_html' = markdown_codehilite(RenderText(render_doc))
    /\ rstate' = "done"
    /\ UNCHANGED <<render_doc, parser_vars, builder_vars, run_vars, link_vars, nav_vars, bump_vars, deploy_vars, creds_vars, upd_vars, res_vars>>

NextRender == RenderMarkdown

SpecRender == InitRender /\ [][NextRender]_vars

----------------------------------------------------------------------------
(* The navigation groups of bounded documents *)

MaxNavLines == 3

NavLines == {
    <<"#", "#", " ", "A", ":">>,
    <<"#", "#", " ", "B", ":", " ", ":">>,
    <<"#", "#", " ", "1", ".", " ", "C", ":", ":">>,
    <<"#", "#", "#", " ", "D", " ", ":">>,
    <<"#", "#", "#", " ", "E", ":", " ", ":">>,
    <<"*", "*", "F", ":", "*", "*">>}

NavPage == PageConfig(<<"a">>, <<>>, PublicDir)

InitNav ==
    /\ nav_doc \in {JoinLines(ls) : ls \in SeqsUpTo(NavLines, MaxNavLines)}
    /\ nav_models = <<>>
    /\ nav_groups = <<>>
    /\ nstate = "input"
    /\ ParserIdle
    /\ BuilderIdle
    /\ RunIdle
    /\ LinkIdle
    /\ RenderIdle
    /\ BumpIdle
    /\ DeployIdle
    /\ CredsIdle
    /\ UpdIdle
    /\ ResolverIdle

\* PageContentGenerator.run, lines 113-130: parse, build the section models,
\* build the navigation groups
BuildNavGroups ==
    /\ nstate = "input"
    /\ parse_sections(nav_doc) # <<>>
    /\ nav_models' = [i \in DOMAIN parse_sections(nav_doc) |->
                         build_section_model(
                             parse_sections(nav_doc)[i],
                             resolve_layout(NavPage.layouts,
                                            parse_sections(nav_doc)[i].slug)).model]
    /\ nav_groups' = build_nav_groups(NavPage, nav_models')
    /\ nstate' = "done"
    /\ UNCHANGED <<nav_doc, parser_vars, builder_vars, run_vars, link_vars, render_vars, bump_vars, deploy_vars, creds_vars, upd_vars, res_vars>>

\* PageContentGenerator.run, lines 113-116: no section, RuntimeError
BuildNavGroupsRaises ==
    /\ nstate = "input"
    /\ parse_sections(nav_doc) = <<>>
    /\ nstate' = "raised"
    /\ UNCHANGED <<nav_doc, nav_models, nav_groups,
                   parser_vars, builder_vars, run_vars, link_vars, render_vars, bump_vars, deploy_vars, creds_vars, upd_vars, res_vars>>

NextNav == BuildNavGroups \/ BuildNavGroupsRaises

SpecNav == InitNav /\ [][NextNav]_vars

----------------------------------------------------------------------------
(* The release bump over bounded configurations *)

MaxBumpPages == 2

MaxBumps == 2

\* Page mappings: a repo of its own, stale release keys, no repo, a stale
\* date only
BumpPayloads == {
    <<[k |-> "repo", v |-> "o/r"]>>,
    <<[k |-> "repo", v |-> "o/s"], [k |-> "language", v |-> "rust"],
      [k |-> "latest_release", v |-> "v0"],
      [k |-> "latest_release_published_at", v |-> "d0"]>>,
    <<[k |-> "language", v |-> "rust"], [k |-> "latest_release", v |-> "v0"]>>,
    <<[k |-> "repo", v |-> "o/r"], [k |-> "latest_release_published_at", v |-> "d0"]>>}

PageKeys == <<"a", "b", "c">>

\* pages: the page mappings, and one page that is not a mapping
BumpPages ==
    UNION {[1..n -> [mapping : {TRUE}, payload : BumpPayloads]
                     \cup {[mapping |-> FALSE, payload |-> <<>>]}] :
           n \in 0..MaxBumpPages}

BumpDocuments ==
    {[defaults |-> d,
      pages |-> [i \in DOMAIN ps |->
                    [key |-> PageKeys[i], mapping |-> ps[i].mapping,
                     payload |-> ps[i].payload]]] :
        d \in {<<>>, <<[k |-> "repo", v |-> "o/d"]>>}, ps \in BumpPages}

\* What fetch_latest returns: None, a release with and without a date
Releases == {<<>>,
             <<[tag_name |-> "v1", published_at |-> "d1"]>>,
             <<[tag_name |-> "v2", published_at |-> ""]>>}

\* The pages of the document for which the loop calls fetch_latest
Fetched(document) ==
    {i \in DOMAIN document.pages :
        /\ document.pages[i].mapping
        /\ resolve_repo(document.pages[i].payload, document.defaults) # ""}

\* What the fetch_latest calls of one bump of the document do: one of the
\* calls may raise, and a call that is never made returns nothing
FetchOutcomes(document) ==
    LET made == Cardinality(Fetched(document))
        Outcome(returned, raises) ==
            [releases |-> [k \in 1..MaxBumpPages |->
                              IF k <= Len(returned) THEN returned[k] ELSE <<>>],
             raises |-> raises]
    IN  {Outcome(returned, 0) : returned \in [1..made -> Releases]}
            \cup UNION {{Outcome(returned, n) : returned \in [1..(n - 1) -> Releases]} :
                           n \in 1..made}

InitBump ==
    /\ bump_doc \in BumpDocuments
    /\ bump_before = <<>>
    /\ bump_calls = <<>>
    /\ bump_results = <<>>
    /\ bstate = "input"
    /\ bumps = 0
    /\ ParserIdle
    /\ BuilderIdle
    /\ RunIdle
    /\ LinkIdle
    /\ RenderIdle
    /\ NavIdle
    /\ DeployIdle
    /\ CredsIdle
    /\ UpdIdle
    /\ ResolverIdle

\* What one call of bump_latest_release_metadata leaves behind: the file, the
\* fetch_latest calls that returned, and the result list when it returns
BumpEnds(outcome) ==
    /\ bump_doc' = dump(bump_doc, outcome)
    /\ bump_calls' = outcome.calls
    /\ bump_results' = IF outcome.raised THEN <<>> ELSE outcome.results
    /\ bump_before' = bump_doc
    /\ bstate' = IF outcome.raised THEN "raised" ELSE "done"
    /\ bumps' = bumps + 1

\* bump_latest_release_metadata returns
Bump ==
    /\ bstate \in {"input", "done"}
    /\ bumps < MaxBumps
    /\ bump_doc.pages # <<>>
    /\ \E responses \in FetchOutcomes(bump_doc) :
           /\ responses.raises = 0
           /\ BumpEnds(bump_latest_release_metadata(bump_doc, responses))
    /\ UNCHANGED <<parser_vars, builder_vars, run_vars, link_vars, render_vars, nav_vars, deploy_vars, creds_vars, upd_vars, res_vars>>

\* bump_latest_release_metadata, lines 69-72: no pages, PagesConfigError
BumpRaises ==
    /\ bstate = "input"
    /\ bump_doc.pages = <<>>
    /\ bstate' = "raised"
    /\ UNCHANGED <<bump_doc, bump_before, bump_calls, bump_results, bumps,
                   parser_vars, builder_vars, run_vars, link_vars, render_vars, nav_vars, deploy_vars, creds_vars, upd_vars, res_vars>>

\* bump_latest_release_metadata raises what a fetch_latest call raised
BumpFetchRaises ==
    /\ bstate \in {"input", "done"}
    /\ bumps < MaxBumps
    /\ bump_doc.pages # <<>>
    /\ \E responses \in FetchOutcomes(bump_doc) :
           /\ responses.raises # 0
           /\ BumpEnds(bump_latest_release_metadata(bump_doc, responses))
    /\ UNCHANGED <<parser_vars, builder_vars, run_vars, link_vars,
                   render_vars, nav_vars, deploy_vars, creds_vars, upd_vars, res_vars>>

NextBump == Bump \/ BumpRaises \/ BumpFetchRaises

SpecBump == InitBump /\ [][NextBump]_vars

----------------------------------------------------------------------------
(* The stack functions over bounded calls and command outcomes *)

MaxDeploys == 2

\* init_stack(ensure_bucket=...), plan_stack(run_init=...) and
\* apply_stack(run_init=...)
DeployCalls ==
    {[fn |-> "init_stack", ensure_bucket |-> b, run_init |-> TRUE] : b \in BOOLEAN}
    \cup {[fn |-> f, ensure_bucket |-> TRUE, run_init |-> b] :
              f \in {"plan_stack", "apply_stack"}, b \in BOOLEAN}

AwsOutcomes == {"missing", "head_ok", "created", "create_failed"}

InitDeploy ==
    /\ deploy_call = [fn |-> "none"]
    /\ dpc = "idle"
    /\ tmp_files = {}
    /\ tmp_made = 0
    /\ commands = <<>>
    /\ deploys = 0
    /\ ParserIdle
    /\ BuilderIdle
    /\ RunIdle
    /\ LinkIdle
    /\ RenderIdle
    /\ NavIdle
    /\ BumpIdle
    /\ CredsIdle
    /\ UpdIdle
    /\ ResolverIdle

\* The call up to try: the configuration is loaded, the credentials are
\* resolved, mkstemp makes the backend file and the tfvars file
DeployStart ==
    /\ dpc \in {"idle", "returned", "raised"}
    /\ deploys < MaxDeploys
    /\ deploy_call' \in DeployCalls
    /\ deploys' = deploys + 1
    /\ commands' = <<>>
    /\ tmp_made' = tmp_made + 2
    /\ tmp_files' = tmp_files \cup {tmp_made + 1, tmp_made + 2}
    /\ dpc' = "try"
    /\ UNCHANGED <<parser_vars, builder_vars, run_vars, link_vars, render_vars,
                   nav_vars, bump_vars, creds_vars, upd_vars, res_vars>>

\* The call raises before it makes a file: resolve_credentials finds no keys
\* (CredentialError)
DeployStartRaises ==
    /\ dpc \in {"idle", "returned", "raised"}
    /\ deploys < MaxDeploys
    /\ deploy_call' \in DeployCalls
    /\ deploys' = deploys + 1
    /\ commands' = <<>>
    /\ dpc' = "raised"
    /\ UNCHANGED <<tmp_files, tmp_made, parser_vars, builder_vars, run_vars,
                   link_vars, render_vars, nav_vars, bump_vars, creds_vars, upd_vars, res_vars>>

\* The next step inside try: the bucket check
DeployEnsureBucket ==
    /\ dpc = "try"
    /\ try_steps(deploy_call)[Len(commands) + 1] = "ensure_backend_bucket"
    /\ \E aws \in AwsOutcomes :
           /\ commands' = Append(commands, [cmd |-> "ensure_backend_bucket",
                                            ok |-> ensure_backend_bucket(aws)])
           /\ dpc' = IF ensure_backend_bucket(aws) THEN "try" ELSE "finally"
    /\ UNCHANGED <<deploy_call, tmp_files, tmp_made, deploys, parser_vars,
                   builder_vars, run_vars, link_vars, render_vars, nav_vars, bump_vars, creds_vars, upd_vars, res_vars>>

\* The next step inside try: run_tofu, which raises CalledProcessError when
\* the command fails; after the last step the call leaves try
DeployRunTofu ==
    /\ dpc = "try"
    /\ try_steps(deploy_call)[Len(commands) + 1] # "ensure_backend_bucket"
    /\ \E ok \in BOOLEAN :
           /\ commands' = Append(commands, [cmd |-> try_steps(deploy_call)[Len(commands) + 1],
                                            ok |-> ok])
           /\ dpc' = IF ok /\ Len(commands) + 1 < Len(try_steps(deploy_call))
                     THEN "try" ELSE "finally"
    /\ UNCHANGED <<deploy_call, tmp_files, tmp_made, deploys, parser_vars,
                   builder_vars, run_vars, link_vars, render_vars, nav_vars, bump_vars, creds_vars, upd_vars, res_vars>>

\* finally: both files are unlinked, then the call returns or the exception
\* of the failed step goes on
DeployFinally ==
    /\ dpc = "finally"
    /\ tmp_files' = unlink_materialized(tmp_files, tmp_made - 1, tmp_made)
    /\ dpc' = IF commands[Len(commands)].ok THEN "returned" ELSE "raised"
    /\ UNCHANGED <<deploy_call, tmp_made, commands, deploys, parser_vars,
                   builder_vars, run_vars, link_vars, render_vars, nav_vars, bump_vars, creds_vars, upd_vars, res_vars>>

NextDeploy ==
    \/ DeployStart
    \/ DeployStartRaises
    \/ DeployEnsureBucket
    \/ DeployRunTofu
    \/ DeployFinally

SpecDeploy == InitDeploy /\ [][NextDeploy]_vars

\* _resolve_backend: the endpoint defaults to the credentials' endpoint
resolve_backend(backend, creds) ==
    [backend EXCEPT !.endpoint = Or(backend.endpoint, creds["s3_endpoint"])]

\* The variable os.getenv reads first for each field
EnvVar ==
    [aws_access_key_id |-> "AWS_ACCESS_KEY_ID",
     aws_secret_access_key |-> "AWS_SECRET_ACCESS_KEY",
     scw_access_key |-> "SCW_ACCESS_KEY", scw_secret_key |-> "SCW_SECRET_KEY",
     cloudflare_api_token |-> "CLOUDFLARE_API_TOKEN", github_token |-> "GITHUB_TOKEN",
     region |-> "AWS_DEFAULT_REGION", s3_endpoint |-> "AWS_S3_ENDPOINT"]

\* os.environ.copy(): the variables that are set, with their values
os_environ(env) ==
    [v \in {EnvVar[f] : f \in {g \in CredentialFields : env[g] # <<>>}} |->
        env[CHOOSE f \in CredentialFields : EnvVar[f] = v][1]]

\* env.setdefault(key, value) for each of the keys, under `if value:`
setdefaults(env, keys, value) ==
    IF Or(value, <<>>) = <<>> THEN env
    ELSE [k \in DOMAIN env \cup keys |-> IF k \in DOMAIN env THEN env[k] ELSE value[1]]

\* build_env: the two AWS keys are assigned, every other variable is set
\* only when the environment does not have it yet
build_env(creds, backend_region, backend_endpoint, process_env) ==
    LET assigned ==
            ("AWS_ACCESS_KEY_ID" :> Or(creds["aws_access_key_id"], <<<<>>>>)[1])
            @@ ("AWS_SECRET_ACCESS_KEY" :> Or(creds["aws_secret_access_key"], <<<<>>>>)[1])
            @@ process_env
        with_region ==
            setdefaults(assigned, {"AWS_DEFAULT_REGION", "SCW_DEFAULT_REGION"},
                        Or(creds["region"], <<backend_region>>))
        with_endpoint ==
            setdefaults(with_region, {"AWS_S3_ENDPOINT", "AWS_ENDPOINT_URL_S3"},
                        Or(creds["s3_endpoint"], backend_endpoint))
        with_scw ==
            setdefaults(setdefaults(with_endpoint, {"SCW_ACCESS_KEY"}, creds["scw_access_key"]),
                        {"SCW_SECRET_KEY"}, creds["scw_secret_key"])
        with_cloudflare ==
            setdefaults(with_scw, {"CLOUDFLARE_API_TOKEN", "TF_VAR_cloudflare_api_token"},
                        creds["cloudflare_api_token"])
        with_github ==
            setdefaults(with_cloudflare, {"GITHUB_TOKEN", "GH_TOKEN", "TF_VAR_github_token"},
                        creds["github_token"])
    IN  setdefaults(setdefaults(with_github, {"TF_VAR_scaleway_access_key"},
                                creds["scw_access_key"]),
                    {"TF_VAR_scaleway_secret_key"}, creds["scw_secret_key"])

----------------------------------------------------------------------------
(* The credentials over bounded files, arguments and environments.  A text  *)
(* is a sequence of symbols; the name of a field serves as one symbol.       *)

CredArgs ==
    {[f \in CredentialFields |-> IF f \in fs THEN <<<<"a", "\"", f>>>> ELSE <<>>] :
         fs \in SUBSET {"aws_access_key_id", "aws_secret_access_key", "region"}}
    \cup {[f \in CredentialFields |->
              IF f \in {"scw_access_key", "scw_secret_key"} THEN <<<<"w">>>> ELSE <<>>]}

Environments ==
    {[f \in CredentialFields |-> IF f \in fs THEN <<<<"e", f>>>> ELSE <<>>] :
         fs \in {{}, {"aws_access_key_id"}, {"region"}, {"s3_endpoint"},
                 {"aws_access_key_id", "aws_secret_access_key"}}}

\* config.toml: [auth] empty, with keys, with an empty region; [backend]
\* with and without an endpoint
ConfigFiles ==
    {[auth |-> a, backend |-> b] :
        a \in {<<>>,
               [f \in {"aws_access_key_id", "aws_secret_access_key"} |->
                   <<"\"", "c", f, "\"">>],
               [f \in {"aws_access_key_id", "aws_secret_access_key", "region",
                       "s3_endpoint"} |->
                   IF f = "region" THEN <<"\"", "\"">> ELSE <<"\"", "c", f, "\"">>]},
        b \in {[f \in {"bucket", "region"} |-> <<"\"", "b", f, "\"">>],
               [f \in {"bucket", "region", "endpoint"} |-> <<"\"", "b", f, "\"">>],
               [f \in {"bucket", "region", "endpoint"} |->
                   IF f = "endpoint" THEN <<"\"", "\"">> ELSE <<"\"", "b", f, "\"">>]}}

InitCreds ==
    /\ config_file \in ConfigFiles
    /\ cred_args \in CredArgs
    /\ environ \in Environments
    /\ saved_creds = <<>>
    /\ loaded_creds = <<>>
    /\ tofu_env = <<>>
    /\ cstate = "input"
    /\ ParserIdle
    /\ BuilderIdle
    /\ RunIdle
    /\ LinkIdle
    /\ RenderIdle
    /\ NavIdle
    /\ BumpIdle
    /\ DeployIdle
    /\ UpdIdle
    /\ ResolverIdle

\* creds = resolve_credentials(config_path=path, ..., save=True)
ResolveAndSave ==
    /\ cstate = "input"
    /\ ~resolve_credentials(config_file, cred_args, environ, TRUE).raised
    /\ saved_creds' = resolve_credentials(config_file, cred_args, environ, TRUE).creds
    /\ config_file' = resolve_credentials(config_file, cred_args, environ, TRUE).file
    /\ cstate' = "saved"
    /\ UNCHANGED <<cred_args, environ, loaded_creds, tofu_env, parser_vars, builder_vars,
                   run_vars, link_vars, render_vars, nav_vars, bump_vars, deploy_vars, upd_vars, res_vars>>

\* resolve_credentials raises CredentialError: nothing is saved
ResolveRaises ==
    /\ cstate = "input"
    /\ resolve_credentials(config_file, cred_args, environ, TRUE).raised
    /\ cstate' = "raised"
    /\ UNCHANGED <<config_file, cred_args, environ, saved_creds, loaded_creds, tofu_env,
                   parser_vars, builder_vars, run_vars, link_vars, render_vars,
                   nav_vars, bump_vars, deploy_vars, upd_vars, res_vars>>

\* loaded = resolve_credentials(config_path=path, save=False), later, in an
\* environment of its own
ResolveAgain ==
    /\ cstate \in {"saved", "env"}
    /\ \E env \in Environments :
           /\ environ' = env
           /\ loaded_creds' =
                  resolve_credentials(config_file, [f \in CredentialFields |-> <<>>],
                                      env, FALSE).creds
    /\ cstate' = "loaded"
    /\ UNCHANGED <<config_file, cred_args, saved_creds, tofu_env, parser_vars,
                   builder_vars, run_vars, link_vars, render_vars, nav_vars, bump_vars,
                   deploy_vars, upd_vars, res_vars>>

\* env = build_env(creds, backend_region=..., backend_endpoint=...), as the
\* stack functions call it on the credentials they resolved, in the same
\* process environment
BuildEnv ==
    /\ cstate = "saved"
    /\ tofu_env' = build_env(saved_creds, load_config(config_file).backend.region,
                             resolve_backend(load_config(config_file).backend,
                                             saved_creds).endpoint,
                             os_environ(environ))
    /\ cstate' = "env"
    /\ UNCHANGED <<config_file, cred_args, environ, saved_creds, loaded_creds,
                   parser_vars, builder_vars, run_vars, link_vars, render_vars,
                   nav_vars, bump_vars, deploy_vars, upd_vars, res_vars>>

NextCreds == ResolveAndSave \/ ResolveRaises \/ ResolveAgain \/ BuildEnv

SpecCreds == InitCreds /\ [][NextCreds]_vars

----------------------------------------------------------------------------
(* The timestamp of the page over bounded pages, lookups and responses *)

ClockStart == 7

UpdPages ==
    {[repo |-> r, latest_release_published_at |-> p] :
        r \in {<<>>, <<"o">>, <<"o", "/", "r">>},
        p \in {<<>>, <<datetime(1, UTC)>>, <<datetime(1, <<>>)>>}}

\* What a commit records as the date of an actor: nothing, a datetime or text
DateValues ==
    {[kind |-> "none", date |-> <<>>, text |-> <<>>],
     [kind |-> "datetime", date |-> <<datetime(2, <<1>>)>>, text |-> <<>>],
     [kind |-> "str", date |-> <<>>, text |-> <<"2", "Z">>],
     [kind |-> "str", date |-> <<>>, text |-> <<" ", "3", "+", "1">>],
     [kind |-> "str", date |-> <<>>, text |-> <<"x">>]}

Commits ==
    {[payload |-> <<>>]} \cup {[payload |-> << <<a, c>> >>] : a, c \in DateValues}

\* repository() raises, returns None or finds the repository; commits()
\* raises, or returns an iterator that raises or lists the commits
Lookups ==
    {[repository |-> r, commits |-> "error", listed |-> <<>>] : r \in {"error", "none"}}
    \cup {[repository |-> "found", commits |-> c, listed |-> <<>>] :
              c \in {"error", "raises", "listed"}}
    \cup {[repository |-> "found", commits |-> "listed", listed |-> <<commit>>] :
              commit \in Commits}

Responses ==
    {[status |-> 503, last_modified |-> <<>>, sections |-> 0]}
    \cup {[status |-> 200, last_modified |-> h, sections |-> n] :
              h \in {<<>>, << <<>> >>, << <<"3", "G">> >>, << <<"4", "+", "1">> >>,
                     << <<"4", "-", "0">> >>, << <<"x">> >>},
              n \in 0..1}

InitUpdated ==
    /\ upd_page \in UpdPages
    /\ upd_lookup \in Lookups
    /\ upd_response \in Responses
    /\ clock = ClockStart
    /\ doc_updated_at = <<>>
    /\ context = <<>>
    /\ ustate = "input"
    /\ ParserIdle
    /\ BuilderIdle
    /\ RunIdle
    /\ LinkIdle
    /\ RenderIdle
    /\ NavIdle
    /\ BumpIdle
    /\ DeployIdle
    /\ CredsIdle
    /\ ResolverIdle

\* PageContentGenerator(page_config)
Construct ==
    /\ ustate = "input"
    /\ ~resolve_doc_updated_at(upd_page, upd_lookup).raised
    /\ doc_updated_at' = resolve_doc_updated_at(upd_page, upd_lookup).value
    /\ ustate' = "constructed"
    /\ UNCHANGED <<upd_page, upd_lookup, upd_response, clock, context, parser_vars,
                   builder_vars, run_vars, link_vars, render_vars, nav_vars, bump_vars,
                   deploy_vars, creds_vars, res_vars>>

\* The constructor raises what the iteration over the commits raised
ConstructRaises ==
    /\ ustate = "input"
    /\ resolve_doc_updated_at(upd_page, upd_lookup).raised
    /\ ustate' = "raised"
    /\ UNCHANGED <<upd_page, upd_lookup, upd_response, clock, doc_updated_at, context,
                   parser_vars, builder_vars, run_vars, link_vars, render_vars, nav_vars,
                   bump_vars, deploy_vars, creds_vars, res_vars>>

\* run(): the fetch, then generated_at, read from the clock at the same
\* instant or later, then the context of every page
RenderUpdated ==
    /\ ustate = "constructed"
    /\ ~fetch_markdown(doc_updated_at, upd_response, clock).raised
    /\ upd_response.sections > 0
    /\ doc_updated_at' = fetch_markdown(doc_updated_at, upd_response, clock).doc_updated_at
    /\ \E later \in 0..1 :
           /\ clock' = clock + later
           /\ context' = [generated_at |-> now(clock'),
                          doc_updated_at |-> Or(doc_updated_at', <<now(clock')>>)[1]]
    /\ ustate' = "rendered"
    /\ UNCHANGED <<upd_page, upd_lookup, upd_response, parser_vars, builder_vars,
                   run_vars, link_vars, render_vars, nav_vars, bump_vars, deploy_vars,
                   creds_vars, res_vars>>

\* run() raises: the fetch failed, or the markdown has no section
RenderUpdatedRaises ==
    /\ ustate = "constructed"
    /\ fetch_markdown(doc_updated_at, upd_response, clock).raised
       \/ upd_response.sections = 0
    /\ doc_updated_at' = fetch_markdown(doc_updated_at, upd_response, clock).doc_updated_at
    /\ ustate' = "raised"
    /\ UNCHANGED <<upd_page, upd_lookup, upd_response, clock, context, parser_vars,
                   builder_vars, run_vars, link_vars, render_vars, nav_vars, bump_vars,
                   deploy_vars, creds_vars, res_vars>>

NextUpdated == Construct \/ ConstructRaises \/ RenderUpdated \/ RenderUpdatedRaises

SpecUpdated == InitUpdated /\ [][NextUpdated]_vars

----------------------------------------------------------------------------
(* The description resolver over bounded pages, manifests and calls *)

MaxResolves == 3

Absent == Table("absent", <<>>)

ManifestTexts ==
    {[format |-> "other", top |-> Absent, package |-> Absent, project |-> Absent,
      workspace |-> Absent]}
    \cup {[format |-> "json", top |-> t, package |-> Absent, project |-> Absent,
           workspace |-> Absent] :
              t \in {Table("scalar", <<>>), Table("table", <<>>),
                     Table("table", << <<"j">> >>)}}
    \cup {[format |-> "toml", top |-> Absent, package |-> pk, project |-> pj,
           workspace |-> Table("table", << <<"w">> >>)] :
              pk \in {Absent, Table("table", << <<>> >>), Table("table", << <<"p">> >>)},
              pj \in {Table("scalar", <<>>), Table("table", << <<"q">> >>)}}

ManifestResponses ==
    {[status |-> 404, text |-> CHOOSE t \in ManifestTexts : t.format = "other"]}
    \cup {[status |-> 200, text |-> t] : t \in ManifestTexts}

ResolverPages ==
    {[label |-> l, manifest_url |-> u, language |-> g] :
        l \in {"A", "B"},
        u \in {<<>>, <<"u", ".toml">>, <<"v", ".json">>},
        g \in {"", "python", "typescript"}}

InitResolver ==
    /\ res_cache = <<>>
    /\ res_completed = <<>>
    /\ res_last = NoCall
    /\ res_calls = 0
    /\ ParserIdle
    /\ BuilderIdle
    /\ RunIdle
    /\ LinkIdle
    /\ RenderIdle
    /\ NavIdle
    /\ BumpIdle
    /\ DeployIdle
    /\ CredsIdle
    /\ UpdIdle

\* What a call leaves: the cache, the call, and for its URL what the call
\* returned when it is the first to complete a successful request
ResolveCall(page, response, r) ==
    /\ res_cache' = r.cache
    /\ res_last' = [page |-> page, requested |-> r.requested, raised |-> r.raised,
                    value |-> r.value]
    /\ res_completed' =
           IF r.requested /\ response.status = 200
              /\ page.manifest_url \notin DOMAIN res_completed
           THEN (page.manifest_url :> [raised |-> r.raised, value |-> r.value])
                    @@ res_completed
           ELSE res_completed
    /\ res_calls' = res_calls + 1

\* resolver.resolve(page) returns
ResolveDescription ==
    /\ res_calls < MaxResolves
    /\ \E page \in ResolverPages, response \in ManifestResponses :
           /\ resolve(res_cache, page, response).raised = ""
           /\ ResolveCall(page, response, resolve(res_cache, page, response))
    /\ UNCHANGED <<parser_vars, builder_vars, run_vars, link_vars, render_vars,
                   nav_vars, bump_vars, deploy_vars, creds_vars, upd_vars>>

\* resolver.resolve(page) raises what _extract_description raised
ResolveDescriptionRaises ==
    /\ res_calls < MaxResolves
    /\ \E page \in ResolverPages, response \in ManifestResponses :
           /\ resolve(res_cache, page, response).raised # ""
           /\ ResolveCall(page, response, resolve(res_cache, page, response))
    /\ UNCHANGED <<parser_vars, builder_vars, run_vars, link_vars, render_vars,
                   nav_vars, bump_vars, deploy_vars, creds_vars, upd_vars>>

NextResolver == ResolveDescription \/ ResolveDescriptionRaises

SpecResolver == InitResolver /\ [][NextResolver]_vars

----------------------------------------------------------------------------
(* Helpers of the properties *)

RECURSIVE SplitLines(_)
\* text.split("\n")
SplitLines(text) ==
    LET e == LineEnd(text, 1)
    IN  IF e > Len(text) THEN <<text>>
        ELSE <<Slice(text, 1, e)>> \o SplitLines(Slice(text, e + 1, Len(text) + 1))

StartsWith(line, prefix) ==
    Len(line) >= Len(prefix) /\ SubSeq(line, 1, Len(prefix)) = prefix

CountLines(text, prefix) ==
    LET ls == SplitLines(text)
    IN  Cardinality({i \in DOMAIN ls : StartsWith(ls[i], prefix)})

RECURSIVE Ascending(_)
\* The members of a finite set of numbers, smallest first
Ascending(S) ==
    IF S = {} THEN <<>>
    ELSE LET m == CHOOSE x \in S : \A y \in S : x <= y
         IN  <<m>> \o Ascending(S \ {m})

\* The layout the page configures for the section under construction
ConfiguredLayout ==
    IF section.slug \in DOMAIN layouts THEN layouts[section.slug]
    ELSE SectionLayout("default", <<>>, <<>>)

FencedBlockCount(text) == CountLines(text, <<BackTick, BackTick, BackTick>>) \div 2

----------------------------------------------------------------------------
(* Properties of parse_sections (SpecParse) *)

\* C1: the sections returned by one parse_sections call have pairwise
\* distinct slugs, whatever the heading texts are, also when a heading
\* already ends in a numeric suffix such as "Foo 2".
C1_SlugsDistinct ==
    pstate = "parsed" =>
        \A i, j \in DOMAIN sections : i # j => sections[i].slug # sections[j].slug

\* Two headings "Foo" followed by a heading "Foo 2": the third base slug is
\* the slug the second section was given
C1_Witness ==
    /\ pstate = "parsed"
    /\ \E i, j, k \in DOMAIN sections :
        /\ i < j /\ j < k
        /\ slugify(sections[i].title) = slugify(sections[j].title)
        /\ slugify(sections[k].title) = sections[j].slug
        /\ sections[k].slug = sections[j].slug \o <<"-", "2">>

\* C2: for a markdown with N level-2 headings and no level-3 headings (read
\* here as: no "### " line and no bold-only line either), parse_sections
\* returns exactly N sections, each with no subsections and with
\* intro_markdown equal to the section's full trimmed body.
C2_IntroIsFullBody ==
    (/\ pstate = "parsed"
     /\ CountLines(markdown_text, <<"#", "#", "#", " ">>) = 0
     /\ CountLines(markdown_text, <<"*", "*">>) = 0)
    => /\ Len(sections) = CountLines(markdown_text, <<"#", "#", " ">>)
       /\ \A i \in DOMAIN sections :
            /\ sections[i].subsections = <<>>
            /\ sections[i].intro_markdown = sections[i].markdown

----------------------------------------------------------------------------
(* Properties of the section model builder (SpecModel) *)

\* C5: the resolved layout of a SectionModel is the device configured for
\* the section's slug ("default" when none is configured), except that
\* numbered_steps on a section without subsections and split_panel on a body
\* without fenced code block both resolve to "default", the latter with an
\* empty secondary_html; neither case raises an error.
C5_ResolvedLayout ==
    LET device == ConfiguredLayout.device
        no_steps == device = "numbered_steps" /\ section.subsections = <<>>
        no_fence == device = "split_panel" /\ FencedBlockCount(section.markdown) = 0
    IN  mstate \in {"built", "raised"} =>
            /\ no_steps \/ no_fence => mstate = "built" /\ model.layout = "default"
            /\ no_fence => model.split_panel.secondary_html = <<>>
            /\ mstate = "built" /\ ~no_steps /\ ~no_fence => model.layout = device

\* split_panel configured for a section that has text and subsections but no
\* fenced code block
C5_Witness ==
    /\ mstate = "built"
    /\ ConfiguredLayout.device = "split_panel"
    /\ FencedBlockCount(section.markdown) = 0
    /\ section.subsections # <<>>
    /\ model.layout = "default"
    /\ model.split_panel.primary_html # <<>>

RECURSIVE C6_MatchedFrom(_, _, _, _)
\* The subsections a step_order entry matches (case-insensitively), entry by
\* entry, each subsection once
C6_MatchedFrom(subs, step_order, k, taken) ==
    IF k > Len(step_order) THEN <<>>
    ELSE LET hits == {i \in DOMAIN subs :
                        Lower(subs[i].title) = Lower(step_order[k])} \ taken
         IN  Ascending(hits) \o C6_MatchedFrom(subs, step_order, k + 1, taken \cup hits)

C6_ExpectedOrder(subs, step_order) ==
    LET matched == C6_MatchedFrom(subs, step_order, 1, {})
    IN  matched \o Ascending(DOMAIN subs \ Range(matched))

\* C6: with device numbered_steps and a non-empty step_order, the steps are
\* first the subsections whose titles match a step_order entry
\* (case-insensitively), in step_order order, then every unmatched subsection
\* in document order; step_order titles that match nothing are skipped.
C6_StepOrder ==
    LET layout == ConfiguredLayout
        subs == section.subsections
        order == C6_ExpectedOrder(subs, layout.step_order)
    IN  (mstate = "built" /\ layout.device = "numbered_steps" /\ layout.step_order # <<>>)
        => /\ Len(model.numbered_steps) = Len(order)
           /\ \A n \in DOMAIN order :
                /\ model.numbered_steps[n].title = subs[order[n]].title
                /\ model.numbered_steps[n].html = markdown(subs[order[n]].markdown)

\* C7: with device split_panel and at least one fenced code block in the
\* body, the featured block is the one at 0-based index emphasized_code_block,
\* and the first one when emphasized_code_block is absent or any integer
\* outside 0..(number of blocks - 1).
C7_FeaturedBlock ==
    LET layout == ConfiguredLayout
        blocks == CODE_BLOCK_PATTERN(section.markdown)
        e == layout.emphasized_code_block
        want == IF e = <<>> \/ e[1] \notin 0..(Len(blocks) - 1) THEN 1 ELSE e[1] + 1
        rest == Strip(Slice(section.markdown, 1, blocks[want].start)
                        \o <<"\n", "\n">>
                        \o Slice(section.markdown, blocks[want].end,
                                 Len(section.markdown) + 1))
    IN  (mstate \in {"built", "raised"} /\ layout.device = "split_panel" /\ blocks # <<>>)
        => /\ mstate = "built"
           /\ model.split_panel.secondary_html
                = code_block(StripChar(blocks[want].code, "\n"), blocks[want].lang)
           /\ model.split_panel.primary_html = markdown(rest)

\* The base anchor of the idx-th subsection
C8_Base(idx) ==
    LET t == generator_slugify(section.subsections[idx].title)
    IN  IF t # <<>> THEN section.slug \o <<"-">> \o t
        ELSE section.slug \o <<"-", "p", "a", "r", "t", "-">> \o Str(idx)

\* C8: within one SectionModel the anchors of the subsection blocks are
\* pairwise distinct; each is {slug}-{slugified title}, or
\* {slug}-part-{1-based index} when the title slugifies to the empty string,
\* with a numeric suffix -2, -3, ... only when that base was already used in
\* the section.
C8_Anchors ==
    mstate = "built" =>
        LET blocks == model.subsections
        IN  /\ Len(blocks) = Len(section.subsections)
            /\ \A i, j \in DOMAIN blocks : i # j => blocks[i].anchor # blocks[j].anchor
            /\ \A i \in DOMAIN blocks :
                LET earlier == {blocks[j].anchor : j \in 1..(i - 1)}
                IN  IF C8_Base(i) \notin earlier
                    THEN blocks[i].anchor = C8_Base(i)
                    ELSE \E k \in 2..(i + 1) :
                            blocks[i].anchor = C8_Base(i) \o <<"-">> \o Str(k)

\* A title that slugifies to nothing, and a title used twice
C8_Witness ==
    /\ mstate = "built"
    /\ \E i, j, k \in DOMAIN model.subsections :
        /\ generator_slugify(model.subsections[i].title) = <<>>
        /\ j < k
        /\ model.subsections[j].title = model.subsections[k].title
        /\ model.subsections[k].anchor = model.subsections[j].anchor \o <<"-", "2">>

\* C9: toc_items has one entry per subsection block (the subsection's title
\* and the block's anchor, in document order), unless the device is
\* numbered_steps and at least one step was produced: then it has exactly one
\* entry per step, with the step's title and the anchor {slug}-step-{n}, in
\* step order.
C9_TocItems ==
    mstate = "built" =>
        IF ConfiguredLayout.device = "numbered_steps" /\ model.numbered_steps # <<>>
        THEN /\ Len(model.toc_items) = Len(model.numbered_steps)
             /\ \A n \in DOMAIN model.toc_items :
                    /\ model.toc_items[n].label = model.numbered_steps[n].title
                    /\ model.toc_items[n].anchor
                        = section.slug \o <<"-", "s", "t", "e", "p", "-">> \o Str(n)
        ELSE /\ Len(model.toc_items) = Len(section.subsections)
             /\ \A n \in DOMAIN model.toc_items :
                    /\ model.toc_items[n].label = section.subsections[n].title
                    /\ model.toc_items[n].anchor = model.subsections[n].anchor

\* Steps that were reordered: the table of contents follows the steps, not
\* the document
C9_Witness ==
    /\ mstate = "built"
    /\ ConfiguredLayout.device = "numbered_steps"
    /\ Len(model.numbered_steps) >= 2
    /\ model.numbered_steps[1].title # section.subsections[1].title
    /\ model.toc_items[1].label = model.numbered_steps[1].title

----------------------------------------------------------------------------
(* Properties of the `pages generate` command (SpecRun) *)

\* A step of generate in which run() was called and got a document
RunCalled == pc = "pages" /\ pstate' = "parsed" /\ vars' # vars

Level2Heading == <<"#", "#", " ">>

\* The directory run() writes the section files to
OutDir(page) ==
    IF args.output_dir # <<>> THEN args.output_dir[1] ELSE page.output_dir

\* C3: when the fetched markdown has no level-2 heading, run() raises to its
\* caller (generate ends with the RuntimeError) and the disk is as it was
\* before the call: no section file, no metadata sidecar, no directory.
C3_NoSectionsRaises ==
    [][(RunCalled /\ CountLines(markdown_text', Level2Heading) = 0)
         => /\ pc' = "failed"
            /\ raised' = "RuntimeError"
            /\ files' = files
            /\ dirs' = dirs]_vars

C3_Witness ==
    /\ pc = "failed"
    /\ raised = "RuntimeError"
    /\ pstate = "parsed"
    /\ CountLines(markdown_text, Level2Heading) = 0
    /\ \E p \in DOMAIN files : files[p].kind = "page"

\* C4: in a generate run over several pages, a page whose document has no
\* level-2 heading is fatal only to that page: generate goes on to the next
\* page, or to the docs index after the last page.
C4_FatalOnlyToPage ==
    [][(/\ RunCalled
        /\ Len(target_pages) > 1
        /\ CountLines(markdown_text', Level2Heading) = 0)
         => /\ pc' = IF cursor = Len(target_pages) THEN "index" ELSE "pages"
            /\ cursor' = cursor + 1]_vars

\* C10: a run() that returns has written exactly one file per parsed section,
\* named {filename_prefix}{slug}.html in the output directory; it returns
\* these paths in document order, no path twice, and each file holds the
\* section it is named after; besides the metadata sidecar no other file of
\* the disk changed.
C10_OneFilePerSection ==
    [][(RunCalled /\ cursor' = cursor + 1)
         => LET page == target_pages[cursor]
                expected == [i \in DOMAIN sections' |->
                                <<OutDir(page),
                                  page.filename_prefix \o sections'[i].slug \o HtmlSuffix>>]
            IN  /\ sections' # <<>>
                /\ written' = expected
                /\ \A i, j \in DOMAIN expected : i # j => expected[i] # expected[j]
                /\ \A i \in DOMAIN expected :
                     /\ exists(files', expected[i])
                     /\ files'[expected[i]] =
                            [kind |-> "page", page |-> page.key,
                             slug |-> sections'[i].slug, order |-> i]
                /\ \A p \in DOMAIN files' :
                     p \notin Range(expected) \cup {metadata_path(page)}
                         => exists(files, p) /\ files'[p] = files[p]]_vars

C10_Witness ==
    /\ pc \in {"pages", "index"}
    /\ pstate = "parsed"
    /\ Len(written) = 3
    /\ \A i \in DOMAIN sections : sections[i].title = sections[1].title
    /\ \A i \in DOMAIN written : exists(files, written[i])

\* The entries of the docs index on disk that belong to the page
IndexEntriesOf(page) ==
    LET entries == files[site_config.docs_index_output].entries
    IN  {entries[i] : i \in {j \in DOMAIN entries : entries[j].label = page.key}}

\* C11: after a run() that returned for a page and the docs index build that
\* follows it, the index has one entry for the page and it links to the file
\* of the first section in document order, whatever the order of the slugs
\* and whatever other files are in the output directory.
C11_IndexLinksFirstSection ==
    (pc = "done" /\ pstate = "parsed")
    => LET page == target_pages[Len(target_pages)]
       IN  IndexEntriesOf(page) =
               {[label |-> page.key,
                 href |-> relpath(written[1], site_config.docs_index_output[1])]}

----------------------------------------------------------------------------
(* Properties of the link rewriter (SpecLink) *)

\* A URI scheme followed by a colon opens the target
HasScheme(t) ==
    \E i \in 2..Len(t) :
        /\ t[i] = ":"
        /\ IsAlpha(t[1])
        /\ \A k \in 1..(i - 1) : t[k] \in scheme_chars

RECURSIVE PathEnd(_, _)
\* The position after the path of a target: its first ? or #, or its end
PathEnd(t, i) ==
    IF i > Len(t) \/ t[i] \in {"?", "#"} THEN i ELSE PathEnd(t, i + 1)

LinkPath(t) == SubSeq(t, 1, PathEnd(t, 1) - 1)

\* The query and fragment of a target, as written
LinkSuffix(t) == SubSeq(t, PathEnd(t, 1), Len(t))

\* The path of the target seen from the repository root
Resolved(page, t) ==
    normpath(posixpath_join(dirname(page.doc_path), LinkPath(t)))

AboveRoot(path) == path = <<".", ".">> \/ HasPrefix(path, <<".", ".", "/">>)

Rewritten(page, path, suffix) ==
    <<"h", "t", "t", "p", "s", ":", "/", "/", "g", "i", "t", "h", "u", "b", ".", "c", "o", "m", "/">>
        \o page.repo \o <<"/", "b", "l", "o", "b", "/">>
        \o (IF page.latest_release # <<>> THEN page.latest_release ELSE page.branch)
        \o <<"/">> \o path \o suffix

\* C12: the link rewriter leaves a target unmodified when it is absolute (it
\* has a scheme), fragment-only, protocol-relative, or when its path, joined
\* to the directory of the source document and normalized, lies above the
\* repository root.
C12_SkippedLinksUnmodified ==
    (/\ lstate = "done"
     /\ \/ HasScheme(link_target)
        \/ HasPrefix(link_target, <<"#">>)
        \/ HasPrefix(link_target, <<"/", "/">>)
        \/ AboveRoot(Resolved(link_page, link_target)))
    => href = link_target

\* A relative link as the rewriter sees it: it has a relative path (no
\* scheme, no "://", not fragment-only, not rooted) that stays inside the
\* repository of a page that has one
RelativeLink ==
    /\ link_page.repo # <<>>
    /\ link_target # <<>>
    /\ ~HasScheme(link_target)
    /\ Find(link_target, <<":", "/", "/">>) = 0
    /\ ~HasPrefix(link_target, <<"#">>)
    /\ ~HasPrefix(link_target, <<"/">>)
    /\ ~AboveRoot(Resolved(link_page, link_target))

\* C13 as stated: every relative link is rewritten to
\* https://github.com/<repo>/blob/<ref>/<path>, ref the latest_release when
\* set and else the branch, path the link's path joined against the directory
\* of doc_path and normalized, query and fragment carried over unchanged.
C13_RelativeRewritten ==
    (lstate = "done" /\ RelativeLink)
    => href = Rewritten(link_page, Resolved(link_page, link_target),
                        LinkSuffix(link_target))

\* The target has no path of its own and names a fragment (?q#f)
PathlessFragment(t) ==
    /\ LinkPath(t) = <<>>
    /\ \E i \in 1..(Len(t) - 1) : t[i] = "#"

\* C13, amended: a relative link is rewritten as stated unless its path
\* normalizes to the repository root itself ("."), or it has an empty path and
\* a fragment; those two kinds are left unmodified.
C13_RelativeRewrittenExceptRoot ==
    (lstate = "done" /\ RelativeLink)
    => LET path == Resolved(link_page, link_target)
       IN  IF path = <<".">> \/ PathlessFragment(link_target)
           THEN href = link_target
           ELSE href = Rewritten(link_page, path, LinkSuffix(link_target))

\* x.md?q#f in docs/guide.md of a page with a latest_release
C13_Witness ==
    /\ lstate = "done"
    /\ RelativeLink
    /\ link_page.latest_release # <<>>
    /\ LinkPath(link_target) # <<>>
    /\ Find(link_target, <<"?">>) # 0
    /\ Find(link_target, <<"#">>) > Find(link_target, <<"?">>)
    /\ href # link_target

----------------------------------------------------------------------------
(* Properties of the renderer (SpecRender) *)

\* The blocks of the document that come out highlighted, in document order
CodeBlocksOf(doc) == SelectSeq(doc, LAMBDA b : b.code)

\* The conversion finds the code blocks the document was made of
RenderedAsWritten ==
    rstate = "done"
    => /\ Len(render_html) = Len(CodeBlocksOf(render_doc))
       /\ \A i \in DOMAIN render_html :
              /\ render_html[i].fenced = CodeBlocksOf(render_doc)[i].fenced
              /\ render_html[i].lang = CodeBlocksOf(render_doc)[i].lang

\* C14: in the HTML that markdown() returns, every highlighted block that a
\* fence produced carries a data-language attribute equal to the language the
\* fence declared, "text" when it declared none and the part before the comma
\* of a label such as rs,no, whatever the number, order and kind of the code
\* blocks of the source.
C14_DataLanguage ==
    rstate = "done"
    => \A i \in DOMAIN render_html :
           CodeBlocksOf(render_doc)[i].fenced
           => render_html[i].data_language =
                  <<IF CodeBlocksOf(render_doc)[i].lang = <<>>
                    THEN <<"t", "e", "x", "t">>
                    ELSE CodeBlocksOf(render_doc)[i].lang>>

\* C14 for documents whose code blocks are all backtick fences
C14_BacktickFencesOnly ==
    (/\ rstate = "done"
     /\ \A i \in DOMAIN render_doc :
            render_doc[i].code
            => render_doc[i].fenced /\ render_doc[i].text[1] # "~")
    => C14_DataLanguage

----------------------------------------------------------------------------
(* Properties of the navigation groups (SpecNav) *)

RECURSIVE FullyCleaned(_)
\* The label without any trailing colon and without surrounding whitespace
FullyCleaned(label) ==
    IF label = <<>> THEN label
    ELSE IF IsSpace(Head(label)) THEN FullyCleaned(Tail(label))
    ELSE IF IsSpace(label[Len(label)]) \/ label[Len(label)] = ":"
         THEN FullyCleaned(SubSeq(label, 1, Len(label) - 1))
    ELSE label

\* C15: every label of the navigation groups (the group label and the entry
\* labels) is the title with all trailing colons and all surrounding
\* whitespace removed, so none ends with a colon or whitespace, while the
\* labels of toc_items are the subsection titles unchanged.
C15_NavLabelsClean ==
    nstate = "done"
    => \A i \in DOMAIN nav_groups :
           LET m == nav_models[i]
               g == nav_groups[i]
           IN  /\ g.label = FullyCleaned(m.short_title)
               /\ g.entries[1].label = FullyCleaned(m.short_title)
               /\ Len(g.entries) = Len(m.subsections) + 1
               /\ \A k \in DOMAIN m.subsections :
                      g.entries[k + 1].label = FullyCleaned(m.subsections[k].title)
               /\ \A e \in Range(g.entries) :
                      e.label = <<>>
                      \/ (e.label[Len(e.label)] # ":" /\ ~IsSpace(e.label[Len(e.label)]))
               /\ Len(m.toc_items) = Len(m.subsections)
               /\ \A k \in DOMAIN m.toc_items :
                      m.toc_items[k].label = m.subsections[k].title

----------------------------------------------------------------------------
(* Slugs of sections with the same heading (SpecParse) *)

\* Sections i and j are the first and the second section with their heading
FirstAndSecond(i, j) ==
    /\ i < j
    /\ sections[i].title = sections[j].title
    /\ \A k \in 1..(j - 1) : k # i => sections[k].title # sections[i].title

\* The slugs given to the sections before section j
SlugsBefore(j) == {sections[k].slug : k \in 1..(j - 1)}

\* The base slug when it is free, else the base with the smallest suffix
\* -2, -3, ... that is free
FirstFree(base, used) ==
    IF base \notin used THEN base
    ELSE base \o <<"-">>
            \o Str(CHOOSE n \in 2..(Cardinality(used) + 2) :
                    /\ base \o <<"-">> \o Str(n) \notin used
                    /\ \A m \in 2..(n - 1) : base \o <<"-">> \o Str(m) \in used)

\* C16 as stated: in any document, of two sections with identical heading
\* text the first receives the base slug and the second the slug <base>-2.
C16_SecondGetsDash2 ==
    pstate = "parsed"
    => \A i, j \in DOMAIN sections :
           FirstAndSecond(i, j)
           => /\ sections[i].slug = slugify(sections[i].title)
              /\ sections[j].slug = slugify(sections[i].title) \o <<"-", "2">>

\* C16, amended: of two sections with identical heading text each receives
\* the base slug or, when it is taken, the base with the smallest free suffix
\* -2, -3, ...; so the first receives the base slug and the second <base>-2
\* whenever no section before them was given one of these two slugs.
C16_SecondGetsFirstFree ==
    pstate = "parsed"
    => \A i, j \in DOMAIN sections :
           FirstAndSecond(i, j)
           => LET base == slugify(sections[i].title)
              IN  /\ sections[i].slug = FirstFree(base, SlugsBefore(i))
                  /\ sections[j].slug = FirstFree(base, SlugsBefore(j))
                  /\ (/\ base \notin SlugsBefore(i)
                      /\ base \o <<"-", "2">> \notin SlugsBefore(j))
                     => /\ sections[i].slug = base
                        /\ sections[j].slug = base \o <<"-", "2">>

\* Two headings "Foo" with nothing in their way
C16_Witness ==
    /\ pstate = "parsed"
    /\ \E i, j \in DOMAIN sections :
           /\ FirstAndSecond(i, j)
           /\ sections[i].slug = slugify(sections[i].title)
           /\ sections[j].slug = sections[i].slug \o <<"-", "2">>

----------------------------------------------------------------------------
(* Properties of the release bump (SpecBump) *)

\* The value of a key of a mapping, "" when the mapping has no such key
ValueOf(payload, key) ==
    IF \E i \in DOMAIN payload : payload[i].k = key
    THEN (CHOOSE item \in Range(payload) : item.k = key).v
    ELSE ""

HasKey(payload, key) == \E i \in DOMAIN payload : payload[i].k = key

\* The repo of the page mapping i of the loaded document: its own, else the
\* defaults'
RepoOfPage(i) ==
    IF ~bump_before.pages[i].mapping THEN ""
    ELSE IF ValueOf(bump_before.pages[i].payload, "repo") # ""
    THEN ValueOf(bump_before.pages[i].payload, "repo")
    ELSE ValueOf(bump_before.defaults, "repo")

\* The pages with a repo, in page order
PagesWithRepo ==
    Ascending({i \in DOMAIN bump_before.pages : RepoOfPage(i) # ""})

\* C17: after bump_latest_release_metadata returns, fetch_latest was called
\* exactly once for every page mapping with a repo (its own or the defaults'),
\* in page order; a returned release leaves latest_release equal to its tag and
\* latest_release_published_at equal to its published_at, or absent when it
\* has none; no release leaves both keys absent.  Pages without a repo are not
\* fetched, not changed and absent from the result.
C17_BumpRecords ==
    bstate = "done"
    => /\ Len(bump_calls) = Len(PagesWithRepo)
       /\ Len(bump_results) = Len(PagesWithRepo)
       /\ \A n \in DOMAIN PagesWithRepo :
              LET i == PagesWithRepo[n]
                  after == bump_doc.pages[i].payload
                  release == bump_calls[n].release
              IN  /\ bump_calls[n].repo = RepoOfPage(i)
                  /\ bump_results[n] = [key |-> bump_before.pages[i].key,
                                        release |-> release]
                  /\ IF release # <<>>
                     THEN /\ ValueOf(after, "latest_release") = release[1].tag_name
                          /\ IF release[1].published_at # ""
                             THEN ValueOf(after, "latest_release_published_at")
                                      = release[1].published_at
                             ELSE ~HasKey(after, "latest_release_published_at")
                     ELSE /\ ~HasKey(after, "latest_release")
                          /\ ~HasKey(after, "latest_release_published_at")
       /\ \A i \in DOMAIN bump_before.pages :
              RepoOfPage(i) = ""
              => /\ bump_doc.pages[i] = bump_before.pages[i]
                 /\ \A n \in DOMAIN bump_results :
                        bump_results[n].key # bump_before.pages[i].key

\* A page without a repo after a page whose release has no date and whose
\* mapping held a stale latest_release_published_at
C17_Witness ==
    /\ bstate = "done"
    /\ Len(bump_before.pages) = 2
    /\ RepoOfPage(1) # ""
    /\ RepoOfPage(2) = ""
    /\ bump_before.pages[2].mapping
    /\ HasKey(bump_before.pages[1].payload, "latest_release_published_at")
    /\ bump_calls[1].release # <<>>
    /\ bump_calls[1].release[1].published_at = ""
    /\ ~HasKey(bump_doc.pages[1].payload, "latest_release_published_at")

----------------------------------------------------------------------------
(* Properties of the stack functions (SpecDeploy) *)

\* C18: whenever init_stack, plan_stack or apply_stack returns, or raises
\* because the bucket check or a tofu command failed, the temporary backend
\* file and the temporary tfvars file it made no longer exist.
C18_TempFilesRemoved ==
    (dpc \in {"returned", "raised"}) => tmp_files = {}

\* A call that made its two files and raised because tofu init failed
C18_Witness ==
    /\ dpc = "raised"
    /\ commands # <<>>
    /\ commands[Len(commands)] = [cmd |-> "tofu init", ok |-> FALSE]
    /\ tmp_made = 2 * deploys
    /\ tmp_files = {}

\* The commands the call ran are exactly these, in this order
Ran(cmds) ==
    /\ Len(commands) = Len(cmds)
    /\ \A n \in DOMAIN cmds : commands[n].cmd = cmds[n]

\* C19: plan_stack and apply_stack run ensure_backend_bucket, then tofu init
\* (only when run_init), then tofu plan or tofu apply; init_stack runs
\* ensure_backend_bucket (only when ensure_bucket) before tofu init; a step
\* that fails prevents every later step.
C19_StepOrder ==
    /\ \A n \in DOMAIN commands : ~commands[n].ok => n = Len(commands)
    /\ dpc = "returned"
       => /\ \A n \in DOMAIN commands : commands[n].ok
          /\ IF deploy_call.fn = "init_stack"
             THEN IF deploy_call.ensure_bucket
                  THEN Ran(<<"ensure_backend_bucket", "tofu init">>)
                  ELSE Ran(<<"tofu init">>)
             ELSE LET last == IF deploy_call.fn = "plan_stack"
                              THEN "tofu plan" ELSE "tofu apply"
                  IN  IF deploy_call.run_init
                      THEN Ran(<<"ensure_backend_bucket", "tofu init", last>>)
                      ELSE Ran(<<"ensure_backend_bucket", last>>)
    /\ (dpc = "raised" /\ commands # <<>>)
       => /\ ~commands[Len(commands)].ok
          /\ commands[1].cmd =
                 IF deploy_call.fn = "init_stack" /\ ~deploy_call.ensure_bucket
                 THEN "tofu init" ELSE "ensure_backend_bucket"
          /\ \A n \in 2..Len(commands) :
                 /\ commands[n - 1].cmd # commands[n].cmd
                 /\ commands[n].cmd = "tofu init"
                    => commands[n - 1].cmd = "ensure_backend_bucket"
                 /\ commands[n].cmd \in {"tofu plan", "tofu apply"}
                    => /\ n = (IF deploy_call.run_init THEN 3 ELSE 2)
                       /\ deploy_call.fn # "init_stack"

\* plan_stack with run_init returned after its three steps, as the second
\* call
C19_Witness ==
    /\ dpc = "returned"
    /\ deploys = 2
    /\ deploy_call.fn = "plan_stack"
    /\ deploy_call.run_init
    /\ Len(commands) = 3

----------------------------------------------------------------------------
(* Properties of the credentials (SpecCreds) *)

RoundTripFields ==
    {"aws_access_key_id", "aws_secret_access_key", "region", "s3_endpoint"}

\* C20 as stated: after resolve_credentials(..., save=True) returned a
\* credential set, a later resolve_credentials on the same config file with no
\* explicit arguments and save=False returns the same access key, secret key,
\* region and endpoint.
C20_RoundTrip ==
    cstate = "loaded"
    => \A f \in RoundTripFields : loaded_creds[f] = saved_creds[f]

\* C20, amended: the later call returns the same access key, secret key,
\* region and endpoint provided its environment sets none of their variables
\* (AWS_ACCESS_KEY_ID, AWS_SECRET_ACCESS_KEY, AWS_DEFAULT_REGION,
\* AWS_S3_ENDPOINT) to another value than the saved one.
C20_RoundTripSameEnvironment ==
    (/\ cstate = "loaded"
     /\ \A f \in RoundTripFields : environ[f] \in {<<>>, saved_creds[f]})
    => \A f \in RoundTripFields : loaded_creds[f] = saved_creds[f]

\* The saving call was given an access key holding a quote character, the
\* later call found no variable in its environment
C20_Witness ==
    /\ cstate = "loaded"
    /\ \A f \in CredentialFields : environ[f] = <<>>
    /\ cred_args["aws_access_key_id"] # <<>>
    /\ saved_creds["aws_access_key_id"] = cred_args["aws_access_key_id"]
    /\ loaded_creds["aws_access_key_id"] = cred_args["aws_access_key_id"]

\* The variables build_env is to give each credential field
EnvVarsOf ==
    [aws_access_key_id |-> {"AWS_ACCESS_KEY_ID"},
     aws_secret_access_key |-> {"AWS_SECRET_ACCESS_KEY"},
     region |-> {"AWS_DEFAULT_REGION"}, s3_endpoint |-> {"AWS_S3_ENDPOINT"},
     cloudflare_api_token |-> {"CLOUDFLARE_API_TOKEN", "TF_VAR_cloudflare_api_token"},
     github_token |-> {"GITHUB_TOKEN"},
     scw_access_key |-> {"TF_VAR_scaleway_access_key"},
     scw_secret_key |-> {"TF_VAR_scaleway_secret_key"}]

\* C21: for every credential field that is set in the CredentialSet, the
\* environment build_env returns carries that credential's value in the
\* field's variables, so that the tofu process sees the credentials that were
\* resolved for the command.
C21_EnvCarriesCredentials ==
    cstate = "env"
    => \A f \in CredentialFields :
           Or(saved_creds[f], <<>>) # <<>>
           => \A v \in EnvVarsOf[f] :
                  v \in DOMAIN tofu_env /\ tofu_env[v] = saved_creds[f][1]

----------------------------------------------------------------------------
(* Properties of the timestamp of the page (SpecUpdated) *)

\* The latest commit time of the document, when the lookup yields one
CommitTime == fetch_doc_commit_date(upd_page, upd_lookup).value

\* The Last-Modified header of the markdown response, when it parses
LastModified ==
    IF Or(upd_response.last_modified, <<>>) = <<>> THEN <<>>
    ELSE parsedate_to_datetime(upd_response.last_modified[1])

\* C22: the `updated` timestamp a page is rendered with is the configured
\* release publication time when set; otherwise the latest commit time when
\* the lookup yields one; otherwise the Last-Modified header of the markdown
\* response when it parses; otherwise the time of the generation, read from
\* the clock during run().
C22_UpdatedPriority ==
    [][(ustate = "constructed" /\ ustate' = "rendered")
        => IF upd_page.latest_release_published_at # <<>>
           THEN context'.doc_updated_at = upd_page.latest_release_published_at[1]
           ELSE IF CommitTime # <<>>
           THEN context'.doc_updated_at = CommitTime[1]
           ELSE IF LastModified # <<>>
           THEN context'.doc_updated_at = to_utc(LastModified[1])
           ELSE /\ context'.doc_updated_at.offset = UTC
                /\ clock <= context'.doc_updated_at.wall
                /\ context'.doc_updated_at.wall <= context'.generated_at.wall]_vars

\* A page without a release time was rendered with the time of its latest
\* commit, while the response carried a Last-Modified header of another time
C22_Witness ==
    /\ ustate = "rendered"
    /\ upd_page.latest_release_published_at = <<>>
    /\ CommitTime # <<>>
    /\ LastModified # <<>>
    /\ to_utc(LastModified[1]) # CommitTime[1]
    /\ context.doc_updated_at = CommitTime[1]

----------------------------------------------------------------------------
(* Properties of the description resolver (SpecResolver) *)

\* A resolve call for a URL that an earlier call has completed a successful
\* request for
LaterCall ==
    /\ res_calls' = res_calls + 1
    /\ res_last'.page.manifest_url \in DOMAIN res_completed

\* C23: once a resolve call has completed an HTTP request for a URL
\* successfully, every later resolve call for that URL returns the same
\* string without issuing another request; a failed request is not cached,
\* so the next resolve call for that URL requests again.
C23_CachedPerUrl ==
    [][/\ LaterCall
          => /\ ~res_last'.requested
             /\ res_last'.raised = ""
             /\ LET first == res_completed[res_last'.page.manifest_url]
                IN  first.raised = "" => res_last'.value = first.value
       /\ (/\ res_calls' = res_calls + 1
           /\ res_last'.page.manifest_url # <<>>
           /\ res_last'.page.manifest_url \notin DOMAIN res_completed)
          => res_last'.requested]_vars

\* C23 for the calls that returned: once a call has returned after a
\* successful request, the later calls for the URL return its string
\* without a request
C23_CachedOnceReturned ==
    [][(LaterCall /\ res_completed[res_last'.page.manifest_url].raised = "")
       => /\ ~res_last'.requested
          /\ res_last'.raised = ""
          /\ res_last'.value = res_completed[res_last'.page.manifest_url].value]_vars

\* C29: whenever resolve(page) returns the fallback text, it is `Reference
\* docs for <label>.` with the label of the page passed to that very call.
C29_FallbackOfThisPage ==
    (/\ res_last # NoCall
     /\ res_last.raised = ""
     /\ res_last.value \in {Fallback(page) : page \in ResolverPages})
    => res_last.value = Fallback(res_last.page)

----------------------------------------------------------------------------
(* The numbered steps of sections with equal subsections (SpecModel) *)

\* The bijections between the steps and the subsections
Bijections(n) == {f \in [1..n -> 1..n] : \A i, j \in 1..n : f[i] = f[j] => i = j}

\* C24: with device numbered_steps, for any step_order, numbered_steps
\* contains each subsection of the section exactly once (as many steps as
\* subsections, also when several subsections have the same title or the
\* same title and body), and the steps are numbered 1..n consecutively with
\* the anchors {section-slug}-step-1 .. {section-slug}-step-n.
C24_EachSubsectionOnce ==
    LET subs == section.subsections
        steps == model.numbered_steps
    IN  (mstate = "built" /\ ConfiguredLayout.device = "numbered_steps")
        => /\ Len(steps) = Len(subs)
           /\ \E f \in Bijections(Len(subs)) :
                  \A n \in DOMAIN steps :
                      /\ steps[n].title = subs[f[n]].title
                      /\ steps[n].html = markdown(subs[f[n]].markdown)
           /\ \A n \in DOMAIN steps :
                  /\ steps[n].number = n
                  /\ steps[n].anchor =
                         section.slug \o <<"-", "s", "t", "e", "p", "-">> \o Str(n)

----------------------------------------------------------------------------
(* The navigation entries and the table of contents of a section (SpecModel) *)

\* The fragment of a link: what follows its first #
Fragment(link) == SubSeq(link, Find(link, <<"#">>) + 1, Len(link))

\* The navigation group _build_nav_groups makes of the section model
NavGroupOfModel == build_nav_groups(NavPage, <<model>>)[1]

\* C25: for every section and every resolved layout, the fragment of each
\* non-primary navigation entry of the section's group is the anchor of some
\* entry in the section's toc_items.
C25_NavTargetsTocAnchors ==
    mstate = "built"
    => \A e \in Range(NavGroupOfModel.entries) :
           ~e.is_primary
           => \E t \in Range(model.toc_items) : t.anchor = Fragment(e.href)

----------------------------------------------------------------------------
(* The metadata sidecar of a run (SpecRun) *)

\* C26: after a run() that returned, the metadata sidecar is in the directory
\* of the HTML files the run wrote and its first_file names a file that
\* exists in that directory, without and with an output_dir override.
C26_SidecarBesidePages ==
    [][(RunCalled /\ cursor' = cursor + 1)
         => LET page == target_pages[cursor]
                sidecar == <<OutDir(page), PAGE_META_TEMPLATE(page.key)>>
            IN  /\ \A i \in DOMAIN written' : written'[i][1] = OutDir(page)
                /\ exists(files', sidecar)
                /\ files'[sidecar].kind = "meta"
                /\ exists(files', <<OutDir(page), json_loads(files'[sidecar].text)>>)]_vars

----------------------------------------------------------------------------
(* The configuration file after a failed bump (SpecBump) *)

\* C27: if fetch_latest raises for any page during
\* bump_latest_release_metadata, the configuration file is left exactly as
\* it was before the call: the release metadata of the pages processed
\* earlier in the same call is not persisted.
C27_FailedBumpWritesNothing ==
    (bstate = "raised" /\ bump_before # <<>>) => bump_doc = bump_before

\* The second fetch_latest call raised after the first had returned a release
\* that the first page did not have recorded
C27_Witness ==
    /\ bstate = "raised"
    /\ bump_before # <<>>
    /\ Len(bump_calls) = 1
    /\ bump_calls[1].release # <<>>
    /\ \E i \in DOMAIN bump_before.pages :
           /\ bump_before.pages[i].mapping
           /\ resolve_repo(bump_before.pages[i].payload, bump_before.defaults) # ""
           /\ record_release(bump_before.pages[i].payload, bump_calls[1].release)
                  # bump_before.pages[i].payload
    /\ bump_doc = bump_before

----------------------------------------------------------------------------
(* The repository path of a rewritten link (SpecLink) *)

\* The repository path of the URL the rewriter produced: what follows
\* https://github.com/<repo>/blob/<ref>/ up to the query or fragment
ProducedPath ==
    LinkPath(SubSeq(href, Len(Rewritten(link_page, <<>>, <<>>)) + 1, Len(href)))

\* C28: every URL the link rewriter produces has a non-empty repository path
\* made only of real path segments: no segment of it is .. or . , whatever
\* the directory of the document and the relative link target.
C28_RepositoryPathIsReal ==
    (lstate = "done" /\ href # link_target)
    => /\ HasPrefix(href, Rewritten(link_page, <<>>, <<>>))
       /\ ProducedPath # <<>>
       /\ \A k \in DOMAIN SplitSlash(ProducedPath) :
              SplitSlash(ProducedPath)[k] \notin {<<".">>, <<".", ".">>}

----------------------------------------------------------------------------
(* Headings inside fenced code blocks (SpecParse) *)

\* The lines of the text that are fences, first to last
FenceLines(text) ==
    Ascending({i \in DOMAIN SplitLines(text) :
                  SplitLines(text)[i] = <<BackTick, BackTick, BackTick>>})

\* Line i lies inside a fenced code block: between an opening fence and the
\* fence that closes it
InsideFence(text, i) ==
    \E n \in DOMAIN FenceLines(text) :
        /\ n % 2 = 1
        /\ n + 1 \in DOMAIN FenceLines(text)
        /\ FenceLines(text)[n] < i
        /\ i < FenceLines(text)[n + 1]

\* C30: section boundaries come only from heading lines outside fenced code
\* blocks: a line starting with "## " that lies inside a fenced code block
\* does not start a new section, so parse_sections returns one section per
\* "## " line outside the fenced code blocks.
C30_FencedHeadingsStartNothing ==
    pstate = "parsed"
    => Len(sections)
           = Cardinality({i \in DOMAIN SplitLines(markdown_text) :
                             /\ StartsWith(SplitLines(markdown_text)[i], <<"#", "#", " ">>)
                             /\ ~InsideFence(markdown_text, i)})

====
